---- MODULE Spec2Model ----
(***************************************************************************)
(* Cache archive restore (turborepo-cache, cache_archive/restore.rs) and   *)
(* the path types it relies on.                                            *)
(*                                                                         *)
(* Strings are sequences of one-character strings, so that starts_with,    *)
(* ends_with, contains and Path::components are computed character by      *)
(* character.  A file system path is a sequence of components, each        *)
(* component a string in that sense.                                       *)
(*                                                                         *)
(* The machines described:                                                 *)
(*   SpecNames  check_name / canonicalize_name applied to every name over  *)
(*              a small alphabet, on a POSIX and on a backslash host;      *)
(*   Spec       CacheReader::restore of every archive over a small entry   *)
(*              universe into a fresh anchor (the cfg(unix) build);        *)
(*   SpecWriter CacheWriter::add_file over small source trees, the drop    *)
(*              of the writer, and the read-back of what it left;          *)
(*   SpecOpen   CacheReader::from_reader / open on a plain and on a        *)
(*              zstd-wrapped archive, followed by restore;                 *)
(*   SpecTwo    two restores into disjoint anchors on one disk, their      *)
(*              steps interleaved;                                         *)
(*   SpecLive   Spec with the progress of a sequential function;           *)
(*   SpecTarNames  make_canonical_for_tar applied once and again to every  *)
(*              name over the small alphabet, for a directory and not;     *)
(*   SpecLinkNames  canonicalize_linkname applied to every short linkname  *)
(*              on both hosts, over disks with and without symlinks.       *)
(***************************************************************************)
EXTENDS Integers, Sequences, FiniteSets, TLC

VARIABLES
    \* ---- SpecNames ----
    npc,          \* position of the name pipeline
    name,         \* the raw name under test
    windows,      \* TRUE on a host built with cfg(windows)
    validation,   \* result of check_name(name)
    canon,        \* result of canonicalize_name(name)
    canon2,       \* result of canonicalize_name applied to canon's path
    is_dir,       \* make_canonical_for_tar(): `is_dir`
    tar_path,     \* the paths make_canonical_for_tar left, one per application
    linkname,     \* canonicalize_linkname(): `linkname`
    link_path,    \* what canonicalize_linkname returned
    \* ---- Spec (restore) ----
    pc,           \* state of the restore session (section 4.7 names)
    archive,      \* the tar stream: a sequence of entries
    pos,          \* index of the next stream entry
    fs,           \* the disk: real path -> node
    restored,     \* restore(): `restored`, the list handed back to the caller
    symlinks,     \* restore_entries(): `symlinks`, stream indexes of deferred entries
    order,        \* topologically_restore_symlinks(): the headers in toposort order
    next_node,    \* index into order
    restored_symlinks, \* topologically_restore_symlinks(): its local `restored`
    result,       \* what restore() returned
    writes,       \* real paths of every object restore created or wrote
    Anchor,       \* restore(): `anchor`, the directory restored into; new(): `root`
    \* ---- the caller of the reader ----
    stored,       \* the archive as it lies in the file or byte stream
    opened,       \* how the CacheReader was constructed
    parked,       \* SpecTwo: the restore session that is not running now
    \* ---- SpecWriter ----
    wpc,          \* state of the writer
    tree,         \* the source tree: anchored name -> node
    stamps,       \* owner and times of the tree in each of two runs
    inputs,       \* the anchored paths handed to add_file, in order
    wnext,        \* index of the next input
    tape,         \* headers and bodies appended to the tar builder (run 1)
    twin_tape,    \* the same for run 2
    \* ---- SpecAssets ----
    cells,        \* the cells holding EvaluatableAssets values, in creation order
    tasks         \* the call that filled each cell

namevars == <<npc, name, windows, validation, canon, canon2, is_dir, tar_path, linkname, link_path>>
restorevars == <<pc, archive, pos, fs, restored, symlinks, order, next_node,
                 restored_symlinks, result, writes, Anchor>>
callervars == <<stored, opened, parked>>
writervars == <<wpc, tree, stamps, inputs, wnext, tape, twin_tape>>
assetvars == <<cells, tasks>>
vars == <<npc, name, windows, validation, canon, canon2, is_dir, tar_path,
          linkname, link_path,
          pc, archive, pos, fs, restored, symlinks, order, next_node,
          restored_symlinks, result, writes, Anchor,
          stored, opened, parked,
          wpc, tree, stamps, inputs, wnext, tape, twin_tape,
          cells, tasks>>

----------------------------------------------------------------------------
\* Bounds

MaxNameLen == 7

\* The longest archive restored.
MaxEntries == 3

\* Symbolic links followed in one path resolution before the host gives up
\* (ELOOP).
MaxHops == 4

----------------------------------------------------------------------------
\* Strings

Slash == "/"
Backslash == "\\"
Dot == "."

NameChars == {"a", Dot, Slash, Backslash}

RECURSIVE StringsUpTo(_)
StringsUpTo(n) ==
    IF n = 0 THEN {<<>>}
    ELSE LET shorter == StringsUpTo(n - 1)
         IN  shorter \cup {Append(s, c) : s \in {t \in shorter : Len(t) = n - 1}, c \in NameChars}

starts_with(s, p) == Len(p) <= Len(s) /\ SubSeq(s, 1, Len(p)) = p

ends_with(s, p) == Len(p) <= Len(s) /\ SubSeq(s, Len(s) - Len(p) + 1, Len(s)) = p

contains(s, p) ==
    \E i \in 1..(Len(s) - Len(p) + 1) : SubSeq(s, i, i + Len(p) - 1) = p

\* A backslash host on which only the backslash separates.
IsSeparatorNativeOnly(c, win) == IF win THEN c = Backslash ELSE c = Slash

\* The native separators of the host: both on a backslash host.
IsSeparator(c, win) == c = Slash \/ (win /\ c = Backslash)

MainSeparator(win) == IF win THEN Backslash ELSE Slash

\* s cut at every separator; empty pieces are kept.
RECURSIVE SplitAcc(_, _, _, _)
SplitAcc(s, win, cur, acc) ==
    IF s = <<>> THEN Append(acc, cur)
    ELSE IF IsSeparator(Head(s), win)
         THEN SplitAcc(Tail(s), win, <<>>, Append(acc, cur))
         ELSE SplitAcc(Tail(s), win, Append(cur, Head(s)), acc)

Split(s, win) == SplitAcc(s, win, <<>>, <<>>)

RECURSIVE JoinWith(_, _)
JoinWith(comps, sep) ==
    IF comps = <<>> THEN <<>>
    ELSE IF Len(comps) = 1 THEN Head(comps)
    ELSE Head(comps) \o <<sep>> \o JoinWith(Tail(comps), sep)

RECURSIVE ReplaceSlash(_, _)
ReplaceSlash(s, sep) ==
    IF s = <<>> THEN <<>>
    ELSE <<IF Head(s) = Slash THEN sep ELSE Head(s)>> \o ReplaceSlash(Tail(s), sep)

----------------------------------------------------------------------------
\* std::path as used by canonicalize_name

RootDir == <<Slash>>
CurDir == <<Dot>>
ParentDir == <<Dot, Dot>>

has_root(s, win) == s # <<>> /\ IsSeparator(s[1], win)

\* Path::components(): a leading separator is RootDir, a leading "." is
\* CurDir, every other "." and every empty piece is dropped, ".." is kept.
\* (Windows prefixes need ':' or a leading separator and are outside the
\* alphabet of names that reach this point.)
RECURSIVE NormalComponents(_, _)
NormalComponents(pieces, first) ==
    IF pieces = <<>> THEN <<>>
    ELSE LET p == Head(pieces)
             rest == NormalComponents(Tail(pieces), FALSE)
         IN  IF p = <<>> THEN NormalComponents(Tail(pieces), first)
             ELSE IF p = CurDir /\ ~first THEN rest
             ELSE <<p>> \o rest

components(s, win) ==
    IF s = <<>> THEN <<>>
    ELSE IF has_root(s, win)
         THEN <<RootDir>> \o NormalComponents(Split(s, win), FALSE)
         ELSE NormalComponents(Split(s, win), Head(Split(s, win)) # <<>>)

\* FromIterator<Component> for PathBuf: push every component, separated by
\* the host's main separator.
collect(comps, win) ==
    IF comps # <<>> /\ Head(comps) = RootDir
    THEN <<MainSeparator(win)>> \o JoinWith(Tail(comps), MainSeparator(win))
    ELSE JoinWith(comps, MainSeparator(win))

is_absolute(s, win) == has_root(s, win)

\* IntoSystem::into_system: forward slashes become the host's separator.
into_system(s, win) == IF win THEN ReplaceSlash(s, Backslash) ELSE s

\* AnchoredSystemPathBuf::from_path_buf
from_path_buf(path, win) ==
    IF is_absolute(path, win)
    THEN [err |-> "NotRelative", path |-> path]
    ELSE [err |-> "Ok", path |-> into_system(path, win)]

----------------------------------------------------------------------------
\* check_name and canonicalize_name

check_name_no_prefix_rule(n) ==
    IF n = <<>> THEN [well_formed |-> FALSE, windows_safe |-> FALSE]
    ELSE LET wf1 == ~(n = <<Dot>> \/ n = <<Dot, Dot>>)
             wf3 == wf1 /\ ~(ends_with(n, <<Slash, Dot>>) \/ ends_with(n, <<Slash, Dot, Dot>>))
             wf4 == wf3 /\ ~(contains(n, <<Slash, Slash>>)
                             \/ contains(n, <<Slash, Dot, Slash>>)
                             \/ contains(n, <<Slash, Dot, Dot, Slash>>))
         IN  [well_formed |-> wf4, windows_safe |-> ~contains(n, <<Backslash>>)]

check_name_no_suffix_rule(n) ==
    IF n = <<>> THEN [well_formed |-> FALSE, windows_safe |-> FALSE]
    ELSE LET wf1 == ~(n = <<Dot>> \/ n = <<Dot, Dot>>)
             wf2 == wf1 /\ ~(starts_with(n, <<Slash>>)
                             \/ starts_with(n, <<Dot, Slash>>)
                             \/ starts_with(n, <<Dot, Dot, Slash>>))
             wf4 == wf2 /\ ~(contains(n, <<Slash, Slash>>)
                             \/ contains(n, <<Slash, Dot, Slash>>)
                             \/ contains(n, <<Slash, Dot, Dot, Slash>>))
         IN  [well_formed |-> wf4, windows_safe |-> ~contains(n, <<Backslash>>)]

\* check_name with a portability flag that only looks at the first character.
check_name_backslash_at_start(n) ==
    IF n = <<>> THEN [well_formed |-> FALSE, windows_safe |-> FALSE]
    ELSE [well_formed |-> check_name_no_suffix_rule(n).well_formed
                          /\ check_name_no_prefix_rule(n).well_formed,
          windows_safe |-> ~starts_with(n, <<Backslash>>)]

\* check_name: the two flags of PathValidation.
check_name(n) ==
    IF n = <<>> THEN [well_formed |-> FALSE, windows_safe |-> FALSE]
    ELSE LET wf1 == ~(n = <<Dot>> \/ n = <<Dot, Dot>>)
             wf2 == wf1 /\ ~(starts_with(n, <<Slash>>)
                             \/ starts_with(n, <<Dot, Slash>>)
                             \/ starts_with(n, <<Dot, Dot, Slash>>))
             wf3 == wf2 /\ ~(ends_with(n, <<Slash, Dot>>) \/ ends_with(n, <<Slash, Dot, Dot>>))
             wf4 == wf3 /\ ~(contains(n, <<Slash, Slash>>)
                             \/ contains(n, <<Slash, Dot, Slash>>)
                             \/ contains(n, <<Slash, Dot, Dot, Slash>>))
         IN  [well_formed |-> wf4, windows_safe |-> ~contains(n, <<Backslash>>)]

canonicalize_name_unchecked(n, win) ==
    from_path_buf(collect(components(n, win), win), win)

\* canonicalize_name asking the host's question before the well-formedness
\* question.
canonicalize_name_host_first(n, win) ==
    LET v == check_name(n)
    IN  IF win /\ ~v.windows_safe THEN [err |-> "WindowsUnsafeName", path |-> n]
        ELSE IF ~v.well_formed THEN [err |-> "MalformedName", path |-> n]
        ELSE from_path_buf(collect(components(n, win), win), win)

canonicalize_name(n, win) ==
    LET v == check_name(n)
    IN  IF ~v.well_formed THEN [err |-> "MalformedName", path |-> n]
        ELSE IF win /\ ~v.windows_safe THEN [err |-> "WindowsUnsafeName", path |-> n]
        ELSE from_path_buf(collect(components(n, win), win), win)

NoValidation == [well_formed |-> FALSE, windows_safe |-> FALSE]
NoPath == [err |-> "None", path |-> <<>>]

----------------------------------------------------------------------------
\* The disk

\* A real path is the sequence of components below the root directory.
Root == <<>>

\* The anchors handed to restore(): directories that do not exist yet,
\* below an existing one.
AnchorW == << <<"t">>, <<"w">> >>
AnchorV == << <<"t">>, <<"v">> >>

DirNode == [kind |-> "dir", target |-> <<>>, data |-> 0]
FileNode(d) == [kind |-> "file", target |-> <<>>, data |-> d]
LinkNode(t) == [kind |-> "link", target |-> t, data |-> 0]

InitialDisk == (Root :> DirNode) @@ (<< <<"t">> >> :> DirNode)

Parent(p) == IF p = <<>> THEN <<>> ELSE SubSeq(p, 1, Len(p) - 1)

RECURSIVE DropEmpty(_)
DropEmpty(pieces) ==
    IF pieces = <<>> THEN <<>>
    ELSE IF Head(pieces) = <<>> THEN DropEmpty(Tail(pieces))
    ELSE <<Head(pieces)>> \o DropEmpty(Tail(pieces))

\* The components of a path string as the host's path resolution sees them.
PathPieces(s, win) == DropEmpty(Split(s, win))

\* Path resolution of the host (cfg(unix)): walk `rest` from the existing
\* directory `cur`, following symbolic links; the last component is followed
\* only when `follow`.  Answers
\*   found   the object at .path exists,
\*   absent  every parent exists and is a directory, the last component is
\*           missing; .path is where it would be created,
\*   error   a parent is missing or is not a directory, or too many links.
RECURSIVE Walk(_, _, _, _, _)
Walk(f, cur, rest, fuel, follow) ==
    IF rest = <<>> THEN [st |-> "found", path |-> cur]
    ELSE LET c == Head(rest)
             more == Tail(rest)
             p == Append(cur, c)
         IN  IF c = CurDir THEN Walk(f, cur, more, fuel, follow)
             ELSE IF c = ParentDir THEN Walk(f, Parent(cur), more, fuel, follow)
             ELSE IF p \notin DOMAIN f
                  THEN [st |-> IF more = <<>> THEN "absent" ELSE "error", path |-> p]
             ELSE IF f[p].kind = "dir" THEN Walk(f, p, more, fuel, follow)
             ELSE IF f[p].kind = "file"
                  THEN [st |-> IF more = <<>> THEN "found" ELSE "error", path |-> p]
             ELSE IF more = <<>> /\ ~follow THEN [st |-> "found", path |-> p]
             ELSE IF fuel = 0 THEN [st |-> "error", path |-> p]
             ELSE LET t == f[p].target
                      r == Walk(f, IF has_root(t, FALSE) THEN Root ELSE cur,
                                PathPieces(t, FALSE), fuel - 1, TRUE)
                  IN  IF more = <<>> THEN r
                      ELSE IF r.st = "found" /\ f[r.path].kind = "dir"
                           THEN Walk(f, r.path, more, fuel - 1, follow)
                           ELSE [st |-> "error", path |-> p]

\* stat / lstat / open of an absolute path.
Resolve(f, p, follow) == Walk(f, Root, p, MaxHops, follow)

\* fs::create_dir_all: every missing directory on the way is created, a
\* symbolic link on the way must lead to an existing directory.
RECURSIVE MkdirWalk(_, _, _, _)
MkdirWalk(f, cur, rest, made) ==
    IF rest = <<>> THEN [ok |-> TRUE, fs |-> f, path |-> cur, made |-> made]
    ELSE LET c == Head(rest)
             more == Tail(rest)
             p == Append(cur, c)
         IN  IF c = CurDir THEN MkdirWalk(f, cur, more, made)
             ELSE IF c = ParentDir THEN MkdirWalk(f, Parent(cur), more, made)
             ELSE IF p \notin DOMAIN f
                  THEN MkdirWalk((p :> DirNode) @@ f, p, more, made \cup {p})
             ELSE IF f[p].kind = "dir" THEN MkdirWalk(f, p, more, made)
             ELSE IF f[p].kind = "file"
                  THEN [ok |-> FALSE, fs |-> f, path |-> p, made |-> made]
             ELSE LET r == Walk(f, cur, <<c>>, MaxHops, TRUE)
                  IN  IF r.st = "found" /\ f[r.path].kind = "dir"
                      THEN MkdirWalk(f, r.path, more, made)
                      ELSE [ok |-> FALSE, fs |-> f, path |-> p, made |-> made]

create_dir_all(f, p) == MkdirWalk(f, Root, p, {})

\* The lexical prefix test of Path::starts_with, component by component.
path_starts_with(p, base) == Len(base) <= Len(p) /\ SubSeq(p, 1, Len(base)) = base

\* Lexical normalisation: "." dropped, ".." removes the component before it
\* (nothing to remove at the root).
RECURSIVE CleanAcc(_, _)
CleanAcc(comps, acc) ==
    IF comps = <<>> THEN acc
    ELSE IF Head(comps) = CurDir THEN CleanAcc(Tail(comps), acc)
    ELSE IF Head(comps) = ParentDir THEN CleanAcc(Tail(comps), Parent(acc))
    ELSE CleanAcc(Tail(comps), Append(acc, Head(comps)))

clean(comps) == CleanAcc(comps, <<>>)

\* AbsoluteSystemPath::resolve: anchor joined with an anchored path.
resolve(anchor, path, win) == anchor \o PathPieces(path, win)

----------------------------------------------------------------------------
\* The archive

\* A tar entry: header.entry_type(), header.path(), header.link_name().  The
\* body of a regular file is identified with the entry's place in the stream.
Entry(k, n, l) == [kind |-> k, name |-> n, link |-> l]

N_a == <<"a">>
N_b == <<"b">>
N_c == <<"c">>
N_a_slash == <<"a", "/">>
N_a_a == <<"a", "/", "a">>
N_a_b == <<"a", "/", "b">>
N_b_a == <<"b", "/", "a">>
N_up_a == <<".", ".", "/", "a">>
L_dot == <<".">>
L_up == <<".", ".">>
L_up_slash == <<".", ".", "/">>

EntryUniverse ==
    { Entry("Directory", N_a_slash, <<>>),
      Entry("Regular", N_a, <<>>),
      Entry("Regular", N_b, <<>>),
      Entry("Regular", N_a_b, <<>>),
      Entry("Regular", N_b_a, <<>>),
      Entry("Regular", N_up_a, <<>>),
      Entry("Fifo", N_a, <<>>),
      Entry("Fifo", N_up_a, <<>>),
      Entry("Symlink", N_a, L_dot),
      Entry("Symlink", N_a, N_b),
      Entry("Symlink", N_a, L_up_slash),
      Entry("Symlink", N_b, N_a),
      Entry("Symlink", N_b, N_c),
      Entry("Symlink", N_a_b, L_up),
      Entry("Symlink", N_a_b, N_a),
      Entry("Symlink", N_a_a, N_b),
      Entry("Symlink", N_a_a, N_c) }

RECURSIVE SeqsUpTo(_, _)
SeqsUpTo(S, n) ==
    IF n = 0 THEN {<<>>}
    ELSE LET shorter == SeqsUpTo(S, n - 1)
         IN  shorter \cup {Append(s, x) : s \in {t \in shorter : Len(t) = n - 1}, x \in S}

Archives == SeqsUpTo(EntryUniverse, MaxEntries)

----------------------------------------------------------------------------
\* Restoring one entry.  Every operator answers
\*   [err, arg, fs, wrote]: "Ok" and the restored anchored path, or the error
\*   and its payload; the disk afterwards; the real paths written.

Outcome(e, a, f, w) == [err |-> e, arg |-> a, fs |-> f, wrote |-> w]

IoError == <<"error">>
IsADirectory == <<"Is a directory">>

\* canonicalize_linkname answering the real path where the joined path
\* exists on the disk.
canonicalize_linkname_following_links(anchor, processed_name, link, win) ==
    LET source == resolve(anchor, processed_name, win)
        joined == IF is_absolute(link, win) THEN PathPieces(link, win)
                  ELSE Parent(source) \o PathPieces(link, win)
        real == Resolve(fs, joined, TRUE)
    IN  IF real.st = "found" THEN real.path
        ELSE IF is_absolute(link, win) THEN joined ELSE clean(joined)

\* canonicalize_linkname: the absolute path the link target names, computed
\* from the strings alone.
canonicalize_linkname(anchor, processed_name, link, win) ==
    LET source == resolve(anchor, processed_name, win)
    IN  IF is_absolute(link, win) THEN PathPieces(link, win)
        ELSE clean(Parent(source) \o PathPieces(link, win))

\* restore_directory
restore_directory(f, e) ==
    LET cn == canonicalize_name(e.name, FALSE)
    IN  IF cn.err # "Ok" THEN Outcome(cn.err, cn.path, f, {})
        ELSE LET m == create_dir_all(f, resolve(Anchor, cn.path, FALSE))
             IN  IF m.ok THEN Outcome("Ok", cn.path, m.fs, m.made \cup {m.path})
                 ELSE Outcome("Io", IoError, m.fs, m.made)

\* restore_regular putting the file in the place of a directory it finds,
\* with what the directory held.
restore_regular_replacing_directory(f, e, idx) ==
    LET cn == canonicalize_name(e.name, FALSE)
    IN  IF cn.err # "Ok" THEN Outcome(cn.err, cn.path, f, {})
        ELSE LET r == Resolve(f, resolve(Anchor, cn.path, FALSE), TRUE)
                 kept == { p \in DOMAIN f : ~(Len(p) > Len(r.path) /\ path_starts_with(p, r.path)) }
             IN  IF r.st = "error" THEN Outcome("Io", IoError, f, {})
                 ELSE Outcome("Ok", cn.path,
                              (r.path :> FileNode(idx)) @@ [p \in kept |-> f[p]], {r.path})

\* restore_regular
restore_regular(f, e, idx) ==
    LET cn == canonicalize_name(e.name, FALSE)
    IN  IF cn.err # "Ok" THEN Outcome(cn.err, cn.path, f, {})
        ELSE LET r == Resolve(f, resolve(Anchor, cn.path, FALSE), TRUE)
             IN  IF r.st = "error" THEN Outcome("Io", IoError, f, {})
                 ELSE IF r.st = "found" /\ f[r.path].kind = "dir"
                      THEN Outcome("Io", IsADirectory, f, {})
                 ELSE Outcome("Ok", cn.path, (r.path :> FileNode(idx)) @@ f, {r.path})

\* The creation step shared by both symlink restorers: the link replaces a
\* file or link already at its place; a directory there cannot be unlinked.
actually_restore_symlink(f, processed_name, e) ==
    LET r == Resolve(f, resolve(Anchor, processed_name, FALSE), FALSE)
    IN  IF r.st = "error" THEN Outcome("Io", IoError, f, {})
        ELSE IF r.st = "found" /\ f[r.path].kind = "dir" THEN Outcome("Io", IoError, f, {})
        ELSE Outcome("Ok", processed_name, (r.path :> LinkNode(e.link)) @@ f, {r.path})

\* restore_symlink with a containment test that asks for a strict descendant
\* of the anchor.
restore_symlink_strictly_inside(f, e, follow) ==
    LET cn == canonicalize_name(e.name, FALSE)
    IN  IF cn.err # "Ok" THEN Outcome(cn.err, cn.path, f, {})
        ELSE LET processed_linkname == canonicalize_linkname(Anchor, cn.path, e.link, FALSE)
             IN  IF processed_linkname = Anchor \/ ~path_starts_with(processed_linkname, Anchor)
                 THEN Outcome("LinkOutsideOfDirectory", e.link, f, {})
                 ELSE IF Resolve(f, processed_linkname, follow).st # "found"
                      THEN Outcome("LinkTargetDoesNotExist", e.name, f, {})
                 ELSE actually_restore_symlink(f, cn.path, e)

\* restore_symlink: first pass.  `follow` is whether the existence test
\* follows a symbolic link found at the target.
restore_symlink(f, e, follow) ==
    LET cn == canonicalize_name(e.name, FALSE)
    IN  IF cn.err # "Ok" THEN Outcome(cn.err, cn.path, f, {})
        ELSE LET processed_linkname == canonicalize_linkname(Anchor, cn.path, e.link, FALSE)
             IN  IF ~path_starts_with(processed_linkname, Anchor)
                 THEN Outcome("LinkOutsideOfDirectory", e.link, f, {})
                 ELSE IF Resolve(f, processed_linkname, follow).st # "found"
                      THEN Outcome("LinkTargetDoesNotExist", e.name, f, {})
                 ELSE actually_restore_symlink(f, cn.path, e)

\* restore_symlink_with_missing_target: second pass, no existence test.
restore_symlink_with_missing_target(f, e) ==
    LET cn == canonicalize_name(e.name, FALSE)
    IN  IF cn.err # "Ok" THEN Outcome(cn.err, cn.path, f, {})
        ELSE LET processed_linkname == canonicalize_linkname(Anchor, cn.path, e.link, FALSE)
             IN  IF ~path_starts_with(processed_linkname, Anchor)
                 THEN Outcome("LinkOutsideOfDirectory", e.link, f, {})
                 ELSE actually_restore_symlink(f, cn.path, e)

\* The dispatch with every other entry type handed to restore_regular.
restore_entry_without_type_check(f, e, idx, follow) ==
    IF e.kind = "Directory" THEN restore_directory(f, e)
    ELSE IF e.kind = "Symlink" THEN restore_symlink(f, e, follow)
    ELSE restore_regular(f, e, idx)

\* restore_entry: dispatch on the entry type.
restore_entry(f, e, idx, follow) ==
    IF e.kind = "Directory" THEN restore_directory(f, e)
    ELSE IF e.kind = "Regular" THEN restore_regular(f, e, idx)
    ELSE IF e.kind = "Symlink" THEN restore_symlink(f, e, follow)
    ELSE Outcome("UnsupportedFileType", <<e.kind>>, f, {})

----------------------------------------------------------------------------
\* The second pass: topologically_restore_symlinks

\* The key under which a deferred entry enters `nodes` and `header_lookup`.
processed_sourcename(e) ==
    LET processed_name == canonicalize_name(e.name, FALSE).path
    IN  canonicalize_linkname(Anchor, processed_name, processed_name, FALSE)

\* The node its link target is given.
processed_linkname_of(e) ==
    canonicalize_linkname(Anchor, canonicalize_name(e.name, FALSE).path, e.link, FALSE)

\* graph.add_edge(source_node, link_node) for every deferred entry.
graph_edges(arch, syms) ==
    { <<processed_sourcename(arch[syms[k]]), processed_linkname_of(arch[syms[k]])>> :
        k \in 1..Len(syms) }

MaxOf(S) == CHOOSE x \in S : \A y \in S : y <= x

\* header_lookup.insert(processed_sourcename, header): the last deferred
\* entry with a key owns it.  The header is named by its stream index.
header_lookup(arch, syms) ==
    [ n \in { processed_sourcename(arch[syms[k]]) : k \in 1..Len(syms) } |->
        syms[MaxOf({ k \in 1..Len(syms) : processed_sourcename(arch[syms[k]]) = n })] ]

RECURSIVE TransitiveClosure(_)
TransitiveClosure(R) ==
    LET R2 == R \cup { <<q[1][1], q[2][2]>> : q \in { x \in R \X R : x[1][2] = x[2][1] } }
    IN  IF R2 = R THEN R ELSE TransitiveClosure(R2)

has_cycle(edges) == \E x \in TransitiveClosure(edges) : x[1] = x[2]

RECURSIVE Permutations_of(_)
Permutations_of(S) ==
    IF S = {} THEN {<<>>}
    ELSE UNION { { <<x>> \o t : t \in Permutations_of(S \ {x}) } : x \in S }

\* petgraph::algo::toposort, by its contract: any order in which every node
\* comes before the nodes reachable from it.  Only the nodes that own a header
\* are kept, since the loop over the result skips the others.
toposort(edges, keys) ==
    { s \in Permutations_of(keys) :
        \A i, j \in 1..Len(s) : <<s[i], s[j]>> \in TransitiveClosure(edges) => i < j }

----------------------------------------------------------------------------
\* restore(): the session

Ok == [err |-> "Ok", arg |-> <<>>]
Pending == [err |-> "Pending", arg |-> <<>>]

\* restore(): fs::create_dir_all(anchor), then the entries are read.
EnsureAnchor ==
    /\ pc = "FreshAnchor"
    /\ LET m == create_dir_all(fs, Anchor)
       IN  /\ fs' = m.fs
           /\ writes' = writes \cup m.made
           /\ IF m.ok
              THEN pc' = "StreamingEntries" /\ result' = result
              ELSE pc' = "Failed" /\ result' = [err |-> "Io", arg |-> IoError]
    /\ UNCHANGED <<archive, pos, restored, symlinks, order, next_node, restored_symlinks>>
    /\ UNCHANGED <<Anchor>>
    /\ UNCHANGED namevars
    /\ UNCHANGED callervars
    /\ UNCHANGED writervars
    /\ UNCHANGED assetvars

\* restore_entries(): one turn of the loop over tr.entries(), with the faulty
\* arm that carries on after an error.
RestoreEntryIgnoringErrors ==
    /\ pc = "StreamingEntries"
    /\ pos <= Len(archive)
    /\ \E follow \in BOOLEAN :
        LET out == restore_entry(fs, archive[pos], pos, follow)
        IN  /\ fs' = out.fs
            /\ writes' = writes \cup out.wrote
            /\ pos' = pos + 1
            /\ pc' = pc /\ result' = result
            /\ symlinks' = IF out.err = "LinkTargetDoesNotExist"
                           THEN Append(symlinks, pos) ELSE symlinks
            /\ restored' = IF out.err = "Ok" THEN Append(restored, out.arg) ELSE restored
    /\ UNCHANGED <<archive, order, next_node, restored_symlinks>>
    /\ UNCHANGED <<Anchor>>
    /\ UNCHANGED namevars
    /\ UNCHANGED callervars
    /\ UNCHANGED writervars
    /\ UNCHANGED assetvars

\* The same turn with the deferral arm dropping the entry.
RestoreEntryDroppingDeferred ==
    /\ pc = "StreamingEntries"
    /\ pos <= Len(archive)
    /\ \E follow \in BOOLEAN :
        LET out == restore_entry(fs, archive[pos], pos, follow)
        IN  /\ fs' = out.fs
            /\ writes' = writes \cup out.wrote
            /\ pos' = pos + 1
            /\ symlinks' = symlinks
            /\ IF out.err = "LinkTargetDoesNotExist"
               THEN pc' = pc /\ result' = result /\ restored' = restored
               ELSE IF out.err = "Ok"
               THEN pc' = pc /\ result' = result /\ restored' = Append(restored, out.arg)
               ELSE pc' = "Failed" /\ result' = [err |-> out.err, arg |-> out.arg]
                    /\ restored' = restored
    /\ UNCHANGED <<archive, order, next_node, restored_symlinks>>
    /\ UNCHANGED <<Anchor>>
    /\ UNCHANGED namevars
    /\ UNCHANGED callervars
    /\ UNCHANGED writervars
    /\ UNCHANGED assetvars

\* The same turn with no arm that catches LinkTargetDoesNotExist.
RestoreEntryReturningDeferral ==
    /\ pc = "StreamingEntries"
    /\ pos <= Len(archive)
    /\ \E follow \in BOOLEAN :
        LET out == restore_entry(fs, archive[pos], pos, follow)
        IN  /\ fs' = out.fs
            /\ writes' = writes \cup out.wrote
            /\ pos' = pos + 1
            /\ symlinks' = symlinks
            /\ IF out.err = "Ok"
               THEN pc' = pc /\ result' = result /\ restored' = Append(restored, out.arg)
               ELSE pc' = "Failed" /\ result' = [err |-> out.err, arg |-> out.arg]
                    /\ restored' = restored
    /\ UNCHANGED <<archive, order, next_node, restored_symlinks>>
    /\ UNCHANGED <<Anchor>>
    /\ UNCHANGED namevars
    /\ UNCHANGED callervars
    /\ UNCHANGED writervars
    /\ UNCHANGED assetvars

\* The same turn with an error arm that first removes what the restore wrote.
RestoreEntryRollingBack ==
    /\ pc = "StreamingEntries"
    /\ pos <= Len(archive)
    /\ \E follow \in BOOLEAN :
        LET out == restore_entry(fs, archive[pos], pos, follow)
        IN  /\ pos' = pos + 1
            /\ IF out.err = "LinkTargetDoesNotExist"
               THEN pc' = pc /\ result' = result /\ restored' = restored
                    /\ symlinks' = Append(symlinks, pos)
                    /\ fs' = out.fs /\ writes' = writes \cup out.wrote
               ELSE IF out.err = "Ok"
               THEN pc' = pc /\ result' = result /\ symlinks' = symlinks
                    /\ restored' = Append(restored, out.arg)
                    /\ fs' = out.fs /\ writes' = writes \cup out.wrote
               ELSE pc' = "Failed" /\ result' = [err |-> out.err, arg |-> out.arg]
                    /\ restored' = restored /\ symlinks' = symlinks
                    /\ fs' = InitialDisk /\ writes' = writes
    /\ UNCHANGED <<archive, order, next_node, restored_symlinks>>
    /\ UNCHANGED <<Anchor>>
    /\ UNCHANGED namevars
    /\ UNCHANGED callervars
    /\ UNCHANGED writervars
    /\ UNCHANGED assetvars

\* The same turn over a reader that starts the stream again after its last
\* entry.
RestoreEntryRewinding ==
    /\ pc = "StreamingEntries"
    /\ pos <= Len(archive)
    /\ \E follow \in BOOLEAN :
        LET out == restore_entry(fs, archive[pos], pos, follow)
        IN  /\ fs' = out.fs
            /\ writes' = writes \cup out.wrote
            /\ IF out.err \in {"Ok", "LinkTargetDoesNotExist"}
               THEN /\ pc' = pc /\ result' = result
                    /\ IF pos = Len(archive)
                       THEN pos' = 1 /\ restored' = <<>> /\ symlinks' = <<>>
                       ELSE /\ pos' = pos + 1
                            /\ IF out.err = "Ok"
                               THEN restored' = Append(restored, out.arg)
                                    /\ symlinks' = symlinks
                               ELSE symlinks' = Append(symlinks, pos)
                                    /\ restored' = restored
               ELSE /\ pc' = "Failed" /\ result' = [err |-> out.err, arg |-> out.arg]
                    /\ pos' = pos + 1
                    /\ restored' = restored /\ symlinks' = symlinks
    /\ UNCHANGED <<archive, order, next_node, restored_symlinks>>
    /\ UNCHANGED <<Anchor>>
    /\ UNCHANGED namevars
    /\ UNCHANGED callervars
    /\ UNCHANGED writervars
    /\ UNCHANGED assetvars

\* restore_entries(): one turn of the loop over tr.entries().
RestoreEntry ==
    /\ pc = "StreamingEntries"
    /\ pos <= Len(archive)
    /\ \E follow \in BOOLEAN :
        LET out == restore_entry(fs, archive[pos], pos, follow)
        IN  /\ fs' = out.fs
            /\ writes' = writes \cup out.wrote
            /\ pos' = pos + 1
            /\ IF out.err = "LinkTargetDoesNotExist"
               THEN pc' = pc /\ result' = result /\ restored' = restored
                    /\ symlinks' = Append(symlinks, pos)
               ELSE IF out.err = "Ok"
               THEN pc' = pc /\ result' = result /\ symlinks' = symlinks
                    /\ restored' = Append(restored, out.arg)
               ELSE pc' = "Failed" /\ result' = [err |-> out.err, arg |-> out.arg]
                    /\ restored' = restored /\ symlinks' = symlinks
    /\ UNCHANGED <<archive, order, next_node, restored_symlinks>>
    /\ UNCHANGED <<Anchor>>
    /\ UNCHANGED namevars
    /\ UNCHANGED callervars
    /\ UNCHANGED writervars
    /\ UNCHANGED assetvars

\* A second pass that creates the first buffered link while it builds the
\* graph, and finds the cycle afterwards.
CycleDetectedAfterCreating ==
    /\ pc = "StreamingEntries"
    /\ pos > Len(archive)
    /\ has_cycle(graph_edges(archive, symlinks))
    /\ LET out == restore_symlink_with_missing_target(fs, archive[symlinks[1]])
       IN  /\ fs' = out.fs
           /\ writes' = writes \cup out.wrote
    /\ pc' = "Failed"
    /\ result' = [err |-> "CycleDetected", arg |-> <<>>]
    /\ UNCHANGED <<archive, pos, restored, symlinks, order, next_node,
                   restored_symlinks>>
    /\ UNCHANGED <<Anchor>>
    /\ UNCHANGED namevars
    /\ UNCHANGED callervars
    /\ UNCHANGED writervars
    /\ UNCHANGED assetvars

\* topologically_restore_symlinks(): the graph is built and sorted; a cycle
\* ends the restore.
CycleDetected ==
    /\ pc = "StreamingEntries"
    /\ pos > Len(archive)
    /\ has_cycle(graph_edges(archive, symlinks))
    /\ pc' = "Failed"
    /\ result' = [err |-> "CycleDetected", arg |-> <<>>]
    /\ UNCHANGED <<archive, pos, fs, restored, symlinks, order, next_node,
                   restored_symlinks, writes>>
    /\ UNCHANGED <<Anchor>>
    /\ UNCHANGED namevars
    /\ UNCHANGED callervars
    /\ UNCHANGED writervars
    /\ UNCHANGED assetvars

\* A second pass that may start while entries are still in the stream.
TopologicalSortBeforeEnd ==
    /\ pc = "StreamingEntries"
    /\ ~has_cycle(graph_edges(archive, symlinks))
    /\ LET lookup == header_lookup(archive, symlinks)
       IN  \E nodes \in toposort(graph_edges(archive, symlinks), DOMAIN lookup) :
              order' = [k \in 1..Len(nodes) |-> lookup[nodes[k]]]
    /\ next_node' = 1
    /\ pc' = "DrainingSymlinks"
    /\ UNCHANGED <<archive, pos, fs, restored, symlinks, restored_symlinks, result, writes>>
    /\ UNCHANGED <<Anchor>>
    /\ UNCHANGED namevars
    /\ UNCHANGED callervars
    /\ UNCHANGED writervars
    /\ UNCHANGED assetvars

\* topologically_restore_symlinks(): the sort succeeds.
TopologicalSort ==
    /\ pc = "StreamingEntries"
    /\ pos > Len(archive)
    /\ ~has_cycle(graph_edges(archive, symlinks))
    /\ LET lookup == header_lookup(archive, symlinks)
       IN  \E nodes \in toposort(graph_edges(archive, symlinks), DOMAIN lookup) :
              order' = [k \in 1..Len(nodes) |-> lookup[nodes[k]]]
    /\ next_node' = 1
    /\ pc' = "DrainingSymlinks"
    /\ UNCHANGED <<archive, pos, fs, restored, symlinks, restored_symlinks, result, writes>>
    /\ UNCHANGED <<Anchor>>
    /\ UNCHANGED namevars
    /\ UNCHANGED callervars
    /\ UNCHANGED writervars
    /\ UNCHANGED assetvars

\* The same turn with the first pass's restorer, existence test included.
RestoreDeferredSymlinkCheckingTarget ==
    /\ pc = "DrainingSymlinks"
    /\ next_node <= Len(order)
    /\ \E follow \in BOOLEAN :
        LET out == restore_symlink(fs, archive[order[next_node]], follow)
        IN  /\ fs' = out.fs
            /\ writes' = writes \cup out.wrote
            /\ next_node' = next_node + 1
            /\ IF out.err = "Ok"
               THEN pc' = pc /\ result' = result
                    /\ restored_symlinks' = Append(restored_symlinks, out.arg)
               ELSE pc' = "Failed" /\ result' = [err |-> out.err, arg |-> out.arg]
                    /\ restored_symlinks' = restored_symlinks
    /\ UNCHANGED <<archive, pos, restored, symlinks, order>>
    /\ UNCHANGED <<Anchor>>
    /\ UNCHANGED namevars
    /\ UNCHANGED callervars
    /\ UNCHANGED writervars
    /\ UNCHANGED assetvars

\* topologically_restore_symlinks(): one turn of the loop over the sorted
\* nodes.
RestoreDeferredSymlink ==
    /\ pc = "DrainingSymlinks"
    /\ next_node <= Len(order)
    /\ LET out == restore_symlink_with_missing_target(fs, archive[order[next_node]])
       IN  /\ fs' = out.fs
           /\ writes' = writes \cup out.wrote
           /\ next_node' = next_node + 1
           /\ IF out.err = "Ok"
              THEN pc' = pc /\ result' = result
                   /\ restored_symlinks' = Append(restored_symlinks, out.arg)
              ELSE pc' = "Failed" /\ result' = [err |-> out.err, arg |-> out.arg]
                   /\ restored_symlinks' = restored_symlinks
    /\ UNCHANGED <<archive, pos, restored, symlinks, order>>
    /\ UNCHANGED <<Anchor>>
    /\ UNCHANGED namevars
    /\ UNCHANGED callervars
    /\ UNCHANGED writervars
    /\ UNCHANGED assetvars

\* restore_entries(): with the second pass's names put in front.
ReturnRestoredSymlinksFirst ==
    /\ pc = "DrainingSymlinks"
    /\ next_node > Len(order)
    /\ restored' = restored_symlinks \o restored
    /\ pc' = "Done"
    /\ result' = Ok
    /\ UNCHANGED <<archive, pos, fs, symlinks, order, next_node, restored_symlinks, writes>>
    /\ UNCHANGED <<Anchor>>
    /\ UNCHANGED namevars
    /\ UNCHANGED callervars
    /\ UNCHANGED writervars
    /\ UNCHANGED assetvars

\* restore_entries(): restored.append(&mut restored_symlinks); Ok(()).
ReturnRestored ==
    /\ pc = "DrainingSymlinks"
    /\ next_node > Len(order)
    /\ restored' = restored \o restored_symlinks
    /\ pc' = "Done"
    /\ result' = Ok
    /\ UNCHANGED <<archive, pos, fs, symlinks, order, next_node, restored_symlinks, writes>>
    /\ UNCHANGED <<Anchor>>
    /\ UNCHANGED namevars
    /\ UNCHANGED callervars
    /\ UNCHANGED writervars
    /\ UNCHANGED assetvars

NamesIdle ==
    /\ npc = "idle"
    /\ name = <<>>
    /\ windows = FALSE
    /\ validation = NoValidation
    /\ canon = NoPath
    /\ canon2 = NoPath
    /\ is_dir = FALSE
    /\ tar_path = <<>>
    /\ linkname = <<>>
    /\ link_path = <<>>

NoStore == [frame |-> "absent", entries |-> <<>>, extension |-> ""]
NotOpened == [by |-> "none", is_compressed |-> FALSE]
NoSession == [pc |-> "idle"]

\* restore() is called on a reader that is already there, by one caller.
CallerIdle ==
    /\ stored = NoStore
    /\ opened = NotOpened
    /\ parked = NoSession

AssetsIdle ==
    /\ cells = <<>>
    /\ tasks = <<>>

WriterIdle ==
    /\ wpc = "idle"
    /\ tree = <<>>
    /\ stamps = <<>>
    /\ inputs = <<>>
    /\ wnext = 1
    /\ tape = <<>>
    /\ twin_tape = <<>>

Init ==
    /\ NamesIdle
    /\ CallerIdle
    /\ WriterIdle
    /\ AssetsIdle
    /\ Anchor = AnchorW
    /\ pc = "FreshAnchor"
    /\ archive \in Archives
    /\ pos = 1
    /\ fs = InitialDisk
    /\ restored = <<>>
    /\ symlinks = <<>>
    /\ order = <<>>
    /\ next_node = 1
    /\ restored_symlinks = <<>>
    /\ result = Pending
    /\ writes = {}

Next ==
    \/ EnsureAnchor
    \/ RestoreEntry
    \/ CycleDetected
    \/ TopologicalSort
    \/ RestoreDeferredSymlink
    \/ ReturnRestored

Spec == Init /\ [][Next]_vars

----------------------------------------------------------------------------
\* The name pipeline: check_name, canonicalize_name, canonicalize_name again

CheckName ==
    /\ npc = "start"
    /\ validation' = check_name(name)
    /\ npc' = "checked"
    /\ UNCHANGED <<name, windows, canon, canon2, is_dir, tar_path, linkname, link_path>>
    /\ UNCHANGED restorevars
    /\ UNCHANGED callervars
    /\ UNCHANGED writervars
    /\ UNCHANGED assetvars

CanonicalizeName ==
    /\ npc = "checked"
    /\ canon' = canonicalize_name(name, windows)
    /\ npc' = "canonicalized"
    /\ UNCHANGED <<name, windows, validation, canon2, is_dir, tar_path, linkname, link_path>>
    /\ UNCHANGED restorevars
    /\ UNCHANGED callervars
    /\ UNCHANGED writervars
    /\ UNCHANGED assetvars

CanonicalizeAgain ==
    /\ npc = "canonicalized"
    /\ canon.err = "Ok"
    /\ canon2' = canonicalize_name(canon.path, windows)
    /\ npc' = "again"
    /\ UNCHANGED <<name, windows, validation, canon, is_dir, tar_path, linkname, link_path>>
    /\ UNCHANGED restorevars
    /\ UNCHANGED callervars
    /\ UNCHANGED writervars
    /\ UNCHANGED assetvars

RestoreIdle ==
    /\ Anchor = AnchorW
    /\ pc = "idle"
    /\ archive = <<>>
    /\ pos = 1
    /\ fs = InitialDisk
    /\ restored = <<>>
    /\ symlinks = <<>>
    /\ order = <<>>
    /\ next_node = 1
    /\ restored_symlinks = <<>>
    /\ result = Pending
    /\ writes = {}

InitNames ==
    /\ RestoreIdle
    /\ CallerIdle
    /\ WriterIdle
    /\ AssetsIdle
    /\ npc = "start"
    /\ name \in StringsUpTo(MaxNameLen)
    /\ windows \in BOOLEAN
    /\ validation = NoValidation
    /\ canon = NoPath
    /\ canon2 = NoPath
    /\ is_dir = FALSE
    /\ tar_path = <<>>
    /\ linkname = <<>>
    /\ link_path = <<>>

NextNames ==
    \/ CheckName
    \/ CanonicalizeName
    \/ CanonicalizeAgain

SpecNames == InitNames /\ [][NextNames]_vars

----------------------------------------------------------------------------
\* Properties of the name pipeline (SpecNames)

\* The rule of section 4.1, read off the list of shapes.
MalformedShape(n) ==
    \/ n = <<>>
    \/ n = <<Dot>>
    \/ n = <<Dot, Dot>>
    \/ starts_with(n, <<Slash>>)
    \/ starts_with(n, <<Dot, Slash>>)
    \/ starts_with(n, <<Dot, Dot, Slash>>)
    \/ ends_with(n, <<Slash, Dot>>)
    \/ ends_with(n, <<Slash, Dot, Dot>>)
    \/ contains(n, <<Slash, Slash>>)
    \/ contains(n, <<Slash, Dot, Slash>>)
    \/ contains(n, <<Slash, Dot, Dot, Slash>>)

\* C4: check_name reports well_formed = false exactly for the empty name, "."
\* and "..", a leading "/", "./" or "../", a trailing "/." or "/..", and an
\* inner "//", "/./" or "/../"; dot-runs such as "a/.../a" are well-formed.
C4_WellFormedExactly ==
    npc # "start" => (validation.well_formed <=> ~MalformedShape(name))

C4_Witness ==
    /\ npc = "checked"
    /\ name = <<"a", "/", ".", ".", ".", "/", "a">>
    /\ validation.well_formed

\* C5 as stated: whenever canonicalize_name succeeds, canonicalize_name of its
\* result succeeds with the same path, on every host.
C5_IdempotentOnEveryHost ==
    npc = "again" => canon2 = canon

\* C5 amended: on a POSIX host canonicalize_name of a result gives that result
\* again; on a backslash host it does so exactly when the result has one
\* component, and otherwise fails with WindowsUnsafeName.
C5_IdempotentOnPosix ==
    npc = "again" =>
        IF ~windows \/ ~contains(canon.path, <<Backslash>>)
        THEN canon2 = canon
        ELSE canon2 = [err |-> "WindowsUnsafeName", path |-> canon.path]

C5_Witness ==
    /\ npc = "again"
    /\ ~windows
    /\ name = <<"a", "/", "a", "/">>
    /\ canon2 = [err |-> "Ok", path |-> <<"a", "/", "a">>]

\* C6: a path returned by canonicalize_name is non-empty, is not "." or "..",
\* has no leading "/", "./" or "../", no trailing "/." or "/..", and no "//",
\* "/./" or "/../" inside.
C6_CanonicalShape ==
    (npc \in {"canonicalized", "again"} /\ canon.err = "Ok") => ~MalformedShape(canon.path)

C6_Witness ==
    /\ npc = "canonicalized"
    /\ name = <<".", ".", ".", "/">>
    /\ canon = [err |-> "Ok", path |-> <<".", ".", ".">>]

----------------------------------------------------------------------------
\* Properties of restore (Spec)

Terminated == pc \in {"Done", "Failed"}

Range(s) == { s[i] : i \in 1..Len(s) }

\* The canonicalized name of a stream entry.
CanonicalName(e) == canonicalize_name(e.name, FALSE).path

\* Where the link of a symlink entry lives on disk, and where its target
\* resolves lexically.
LinkLocation(e) == resolve(Anchor, CanonicalName(e), FALSE)
LinkTarget(e) == canonicalize_linkname(Anchor, CanonicalName(e), e.link, FALSE)

\* C1: every object restore creates or writes has its real location inside
\* the anchor subtree, also when the write goes through symbolic links that
\* the same restore created.
C1_WritesInsideAnchor ==
    \A p \in writes : path_starts_with(p, Anchor)

\* The next stream entry is a symlink whose lexical target leaves the anchor.
EscapingSymlinkIsNext ==
    /\ pc = "StreamingEntries"
    /\ pos <= Len(archive)
    /\ archive[pos].kind = "Symlink"
    /\ check_name(archive[pos].name).well_formed
    /\ ~path_starts_with(LinkTarget(archive[pos]), Anchor)

RECURSIVE FirstPassIndexes(_)
FirstPassIndexes(i) ==
    IF i > Len(archive) THEN <<>>
    ELSE IF i \in Range(symlinks) THEN FirstPassIndexes(i + 1)
    ELSE <<i>> \o FirstPassIndexes(i + 1)

FirstPassNames ==
    LET idx == FirstPassIndexes(1)
    IN  [k \in 1..Len(idx) |-> CanonicalName(archive[idx[k]])]

DeferredNames == { CanonicalName(archive[i]) : i \in Range(symlinks) }

\* C7: on success the returned list is the names of the first-pass entries in
\* stream order, followed by the names of the deferred symlinks, each once.
C7_FirstPassThenDeferred ==
    pc = "Done" =>
        LET n == Len(FirstPassNames)
        IN  /\ Len(restored) = n + Cardinality(DeferredNames)
            /\ SubSeq(restored, 1, n) = FirstPassNames
            /\ { restored[k] : k \in (n + 1)..Len(restored) } = DeferredNames

C7_Witness ==
    /\ pc = "Done"
    /\ archive = <<Entry("Symlink", N_a, N_b), Entry("Regular", N_b, <<>>)>>
    /\ restored = <<N_b, N_a>>

\* C8: on success the names in the returned list are exactly the
\* canonicalized names of the archive's entries.
C8_RestoredNamesAreEntryNames ==
    pc = "Done" =>
        Range(restored) = { CanonicalName(archive[i]) : i \in 1..Len(archive) }

C8_Witness ==
    /\ pc = "Done"
    /\ Len(archive) = 3
    /\ Len(symlinks) = 2
    /\ Cardinality(Range(restored)) = 3

\* The symlink entries of the archive form cycles of on-disk locations: every
\* entry is a directory away from the links or a symlink, and from the lexical target of every
\* symlink its own location is reached again by going from link location to
\* link target.
LocationEdges ==
    { <<LinkLocation(archive[i]), LinkTarget(archive[i])>> :
        i \in { j \in 1..Len(archive) : archive[j].kind = "Symlink" } }

CyclicArchive ==
    /\ \E i \in 1..Len(archive) : archive[i].kind = "Symlink"
    /\ \A i \in 1..Len(archive) :
        \/ /\ archive[i].kind = "Directory"
           /\ \A j \in 1..Len(archive) :
                archive[j].kind = "Symlink"
                    => LinkLocation(archive[j]) # LinkLocation(archive[i])
        \/ /\ archive[i].kind = "Symlink"
           /\ \/ LinkTarget(archive[i]) = LinkLocation(archive[i])
              \/ <<LinkTarget(archive[i]), LinkLocation(archive[i])>>
                    \in TransitiveClosure(LocationEdges)

\* C9: an archive whose symlinks form a cycle of locations, at whatever
\* directory depth, fails with CycleDetected.
C9_CycleIsDetected ==
    (Terminated /\ CyclicArchive) => result.err = "CycleDetected"

PositionIn(s, x) == CHOOSE k \in 1..Len(s) : s[k] = x

\* C10: when the lexical target of deferred symlink A is the on-disk location
\* of deferred symlink B, A is created before B and listed before it.
C10_SourceBeforeTarget ==
    pc = "Done" =>
        \A i, j \in Range(symlinks) :
            ( /\ CanonicalName(archive[i]) # CanonicalName(archive[j])
              /\ LinkTarget(archive[i]) = LinkLocation(archive[j]) )
            => PositionIn(restored_symlinks, CanonicalName(archive[i]))
                 < PositionIn(restored_symlinks, CanonicalName(archive[j]))

\* The stream indexes of the entries that name the same path as entry i.
SamePath(i) ==
    { j \in 1..Len(archive) : CanonicalName(archive[j]) = CanonicalName(archive[i]) }

\* The object entry i describes is the one found (without following a final
\* link) at the place its name gives under the anchor.
DescribedObjectOnDisk(i) ==
    LET e == archive[i]
        at == Resolve(fs, LinkLocation(e), FALSE)
    IN  /\ at.st = "found"
        /\ IF e.kind = "Regular" THEN fs[at.path] = FileNode(i)
           ELSE IF e.kind = "Symlink" THEN fs[at.path] = LinkNode(e.link)
           ELSE fs[at.path].kind = "dir"

\* C11: after a successful restore, at every path that more than one entry
\* names, the disk holds the object of the last such entry in stream order,
\* whichever pass restored the entries.
C11_LastEntryWins ==
    pc = "Done" =>
        \A i \in 1..Len(archive) :
            Cardinality(SamePath(i)) > 1 => DescribedObjectOnDisk(MaxOf(SamePath(i)))

\* The next stream entry is one whose first-pass restore answers
\* LinkTargetDoesNotExist, however the existence test treats a link.
TargetMissingIsNext ==
    /\ pc = "StreamingEntries"
    /\ pos <= Len(archive)
    /\ \A follow \in BOOLEAN :
        restore_entry(fs, archive[pos], pos, follow).err = "LinkTargetDoesNotExist"

\* C12: restore never ends with LinkTargetDoesNotExist; a first-pass symlink
\* that yields it is buffered, adds nothing to the returned list or the disk
\* at that point, and the first pass goes on with the next entry.
C12_MissingTargetIsDeferred ==
    [][ /\ result'.err # "LinkTargetDoesNotExist"
        /\ TargetMissingIsNext =>
            /\ symlinks' = Append(symlinks, pos)
            /\ restored' = restored
            /\ fs' = fs
            /\ pos' = pos + 1
            /\ pc' = "StreamingEntries"
            /\ result' = Pending ]_vars

C12_Witness ==
    /\ pc = "StreamingEntries"
    /\ archive = <<Entry("Symlink", N_a, N_b), Entry("Regular", N_b, <<>>)>>
    /\ pos = 2
    /\ symlinks = <<1>>
    /\ restored = <<>>

SupportedTypes == {"Regular", "Directory", "Symlink"}

\* C13 as stated: an archive that contains an entry of another kind than
\* regular file, directory or symlink fails with UnsupportedFileType of that
\* kind.
C13_AnyUnsupportedEntryFails ==
    \A i \in 1..Len(archive) :
        (Terminated /\ archive[i].kind \notin SupportedTypes)
            => result = [err |-> "UnsupportedFileType", arg |-> <<archive[i].kind>>]

\* C13 amended: when the first pass reaches an entry of another kind than
\* regular file, directory or symlink, restore fails with UnsupportedFileType
\* of that kind, whatever the entry's name, and the disk is left as it was.
C13_UnsupportedEntryFailsWhenReached ==
    [][ ( /\ pc = "StreamingEntries"
          /\ pos <= Len(archive)
          /\ archive[pos].kind \notin SupportedTypes )
        => ( /\ pc' = "Failed"
             /\ result' = [err |-> "UnsupportedFileType", arg |-> <<archive[pos].kind>>]
             /\ fs' = fs
             /\ writes' = writes
             /\ restored' = restored ) ]_vars

C13_Witness ==
    /\ pc = "Failed"
    /\ result = [err |-> "UnsupportedFileType", arg |-> <<"Fifo">>]
    /\ pos = 3
    /\ archive[2] = Entry("Fifo", N_up_a, <<>>)
    /\ Len(restored) = 1

\* The next stream entry is one whose first-pass restore answers an error
\* other than LinkTargetDoesNotExist, however the existence test treats a link.
FatalEntryIsNext ==
    /\ pc = "StreamingEntries"
    /\ pos <= Len(archive)
    /\ \A follow \in BOOLEAN :
        restore_entry(fs, archive[pos], pos, follow).err \notin {"Ok", "LinkTargetDoesNotExist"}

\* C20: a first-pass entry that fails with another error than
\* LinkTargetDoesNotExist ends restore with that error at once; afterwards no
\* entry is processed, the second pass does not run, and no buffered symlink
\* is created.
C20_FirstErrorEndsRestore ==
    [][ /\ FatalEntryIsNext =>
            /\ pc' = "Failed"
            /\ \E follow \in BOOLEAN :
                LET out == restore_entry(fs, archive[pos], pos, follow)
                IN  result' = [err |-> out.err, arg |-> out.arg]
            /\ order' = <<>>
            /\ restored_symlinks' = <<>>
        /\ pc = "Failed" => UNCHANGED vars ]_vars

C20_Witness ==
    /\ pc = "Failed"
    /\ archive = <<Entry("Symlink", N_a, N_b), Entry("Fifo", N_a, <<>>),
                   Entry("Regular", N_b, <<>>)>>
    /\ symlinks = <<1>>
    /\ pos = 3
    /\ DOMAIN fs = {Root, << <<"t">> >>, Anchor}
    /\ restored_symlinks = <<>>

----------------------------------------------------------------------------
\* The writer: CacheWriter (create.rs)

\* The longest sequence of add_file calls.
MaxInputs == 2

\* The source tree.  st_mode carries the file type bits next to the
\* permission bits, as MetadataExt::mode() returns it.
S_IFREG == 32768
S_IFDIR == 16384
S_IFLNK == 40960
S_IFIFO == 4096

Absent == [kind |-> "absent", perm |-> 0, data |-> <<>>, target |-> <<>>]
SrcFile(d) == [kind |-> "file", perm |-> 420, data |-> d, target |-> <<>>]
SrcDir == [kind |-> "dir", perm |-> 493, data |-> <<>>, target |-> <<>>]
SrcLink(t) == [kind |-> "link", perm |-> 511, data |-> <<>>, target |-> t]
SrcFifo == [kind |-> "fifo", perm |-> 420, data |-> <<>>, target |-> <<>>]

SourceNames == {N_a, N_b, N_a_b}

SourceTrees ==
    { t \in [SourceNames -> {Absent, SrcFile(<<>>), SrcFile(<<"x">>), SrcDir,
                             SrcLink(N_b), SrcLink(N_a), SrcFifo}] :
        /\ t[N_a] # SrcLink(N_a)
        /\ t[N_b] \in {Absent, SrcFile(<<"x">>), SrcLink(N_a)}
        /\ t[N_a_b] \in {Absent, SrcFile(<<"x">>)}
        /\ t[N_a_b] # Absent => t[N_a] = SrcDir }

\* Owner and times of a tree: what fs::symlink_metadata reports besides kind,
\* mode and length.
Stamps == [uid : {0, 501}, time : {0, 1700}]

\* fs::symlink_metadata(source_path): the Metadata of the path itself.
symlink_metadata(t, stamp, path) ==
    LET node == t[path]
    IN  [ok |-> node # Absent,
         is_dir |-> node.kind = "dir",
         is_symlink |-> node.kind = "link",
         mode |-> node.perm + (IF node.kind = "file" THEN S_IFREG
                               ELSE IF node.kind = "dir" THEN S_IFDIR
                               ELSE IF node.kind = "link" THEN S_IFLNK
                               ELSE S_IFIFO),
         len |-> Len(node.data),
         uid |-> stamp.uid, gid |-> stamp.uid,
         atime |-> stamp.time, mtime |-> stamp.time, ctime |-> stamp.time]

\* A numeric header field nothing was written to.
Blank == -1

\* tar::Header::new_gnu(): a zeroed block with the GNU magic and mtime 0.  The
\* type flag of a zeroed block reads as a regular file.
new_gnu ==
    [path |-> <<>>, entry_type |-> "Regular", size |-> Blank, mode |-> Blank,
     uid |-> Blank, gid |-> Blank, atime |-> Blank, mtime |-> 0, ctime |-> Blank,
     link_name |-> <<>>]

\* make_canonical_for_tar pushing the separator without looking at the end
\* of the path.
make_canonical_for_tar_always_pushing(path, is_directory) ==
    IF is_directory THEN Append(path, Slash) ELSE path

\* AnchoredUnixPathBuf::make_canonical_for_tar
make_canonical_for_tar(path, is_directory) ==
    IF is_directory /\ ~ends_with(path, <<Slash>>) THEN Append(path, Slash) ELSE path

\* CacheWriter::create_header.  The block that sets the mode is compiled
\* under cfg(unix) only; there is no block for another host.
create_header(path, file_info, unix) ==
    [new_gnu EXCEPT !.mode = IF unix THEN file_info.mode ELSE Blank,
                    !.path = make_canonical_for_tar(path, file_info.is_dir)]

\* Header::size(): the octal text of the size field.  A field nothing was
\* written to holds no digits; size_readable is whether the library reads
\* that as 0 or answers an error.
header_size(header, size_readable) ==
    IF header.size # Blank THEN [ok |-> TRUE, size |-> header.size]
    ELSE [ok |-> size_readable, size |-> 0]

Appended(e, h, b) == [err |-> e, header |-> h, body |-> b]

\* add_file with the header fields copied from the file's metadata, as
\* Header::set_metadata would.
add_file_with_metadata(t, stamp, file_path, size_readable) ==
    LET file_info == symlink_metadata(t, stamp, file_path)
    IN  IF ~file_info.ok THEN Appended("Io", new_gnu, <<>>)
        ELSE
        LET h0 == create_header(file_path, file_info, ~windows)
            h1 == IF file_info.is_symlink
                  THEN [h0 EXCEPT !.link_name = t[file_path].target] ELSE h0
            header == [h1 EXCEPT !.uid = file_info.uid, !.gid = file_info.gid,
                                 !.atime = file_info.atime, !.mtime = file_info.mtime,
                                 !.ctime = file_info.ctime]
            size == header_size(header, size_readable)
        IN  IF header.entry_type \notin {"Regular", "Directory", "Symlink"}
            THEN Appended("UnsupportedFileType", header, <<>>)
            ELSE IF header.entry_type = "Regular" /\ ~size.ok
            THEN Appended("Io", header, <<>>)
            ELSE IF header.entry_type = "Regular" /\ size.size > 0
            THEN Appended("Ok", header, t[file_path].data)
            ELSE Appended("Ok", header, <<>>)

\* CacheWriter::add_file: the header and the body handed to
\* tar_builder.append, or the error.
add_file(t, stamp, file_path, size_readable) ==
    LET file_info == symlink_metadata(t, stamp, file_path)
    IN  IF ~file_info.ok THEN Appended("Io", new_gnu, <<>>)
        ELSE
        LET h0 == create_header(file_path, file_info, ~windows)
            h1 == IF file_info.is_symlink
                  THEN [h0 EXCEPT !.link_name = t[file_path].target] ELSE h0
            header == [h1 EXCEPT !.uid = 0, !.gid = 0, !.atime = 0, !.mtime = 0,
                                 !.ctime = 0]
            size == header_size(header, size_readable)
        IN  IF header.entry_type \notin {"Regular", "Directory", "Symlink"}
            THEN Appended("UnsupportedFileType", header, <<>>)
            ELSE IF header.entry_type = "Regular" /\ ~size.ok
            THEN Appended("Io", header, <<>>)
            ELSE IF header.entry_type = "Regular" /\ size.size > 0
            THEN Appended("Ok", header, t[file_path].data)
            ELSE Appended("Ok", header, <<>>)

\* The entries a reader finds in what was appended.
TapeEntries(tp) ==
    [i \in 1..Len(tp) |-> Entry(tp[i].header.entry_type, tp[i].header.path,
                                tp[i].header.link_name)]

\* One add_file call on each of the two runs; an error ends the writing.
AddFile ==
    /\ wpc = "Open"
    /\ wnext <= Len(inputs)
    /\ \E size_readable \in BOOLEAN :
        LET run1 == add_file(tree, stamps[1], inputs[wnext], size_readable)
            run2 == add_file(tree, stamps[2], inputs[wnext], size_readable)
        IN  IF run1.err = "Ok"
            THEN /\ tape' = Append(tape, [header |-> run1.header, body |-> run1.body])
                 /\ twin_tape' = Append(twin_tape, [header |-> run2.header, body |-> run2.body])
                 /\ wnext' = wnext + 1
                 /\ wpc' = wpc
            ELSE /\ wpc' = "Failed"
                 /\ UNCHANGED <<tape, twin_tape, wnext>>
    /\ UNCHANGED <<tree, stamps, inputs>>
    /\ UNCHANGED namevars
    /\ UNCHANGED restorevars
    /\ UNCHANGED callervars
    /\ UNCHANGED assetvars

\* The writer goes out of scope (it has no close).  Dropping the tar builder
\* writes the end marker into the zstd encoder; dropping the encoder does not
\* finish the frame, so the sink holds what the encoder happened to pass on:
\* nothing, or the start of a frame.
DropWriter ==
    /\ \/ wpc = "Open" /\ wnext > Len(inputs)
       \/ wpc = "Failed"
    /\ \E frame \in {"empty", "truncated"} :
        stored' = [frame |-> frame, entries |-> TapeEntries(tape), extension |-> "zst"]
    /\ wpc' = "Dropped"
    /\ UNCHANGED <<tree, stamps, inputs, wnext, tape, twin_tape>>
    /\ UNCHANGED <<opened, parked>>
    /\ UNCHANGED namevars
    /\ UNCHANGED restorevars
    /\ UNCHANGED assetvars

----------------------------------------------------------------------------
\* Constructing the reader: CacheReader::from_reader, CacheReader::open

BadStream == [ok |-> FALSE, entries |-> <<>>]
GoodStream(entries) == [ok |-> TRUE, entries |-> entries]

\* What tar::Archive finds in the bytes of `st`, read through a zstd decoder
\* (decode) or as they are.  The frames:
\*   "none"       a plain tar file;
\*   "complete"   a finished zstd frame around the tar file;
\*   "truncated"  a zstd frame that was never finished;
\*   "empty"      no bytes at all.
tar_streams(st, decode) ==
    IF st.frame = "empty"
    THEN IF decode THEN {GoodStream(<<>>), BadStream} ELSE {GoodStream(<<>>)}
    ELSE IF decode
    THEN IF st.frame = "complete" THEN {GoodStream(st.entries)} ELSE {BadStream}
    ELSE IF st.frame = "none" THEN {GoodStream(st.entries)} ELSE {BadStream}

\* from_reader that never wraps the reader in a decoder.
FromReaderNeverDecoding ==
    /\ pc = "NoReader"
    /\ stored # NoStore
    /\ \E is_compressed \in BOOLEAN :
        \E stream \in tar_streams(stored, FALSE) :
            /\ opened' = [by |-> "from_reader", is_compressed |-> is_compressed]
            /\ archive' = stream.entries
            /\ pc' = IF stream.ok THEN "FreshAnchor" ELSE "FreshAnchorBadStream"
    /\ UNCHANGED <<pos, fs, restored, symlinks, order, next_node, restored_symlinks,
                   result, writes, Anchor>>
    /\ UNCHANGED <<stored, parked>>
    /\ UNCHANGED namevars
    /\ UNCHANGED writervars
    /\ UNCHANGED assetvars

\* CacheReader::from_reader(reader, is_compressed)
FromReader ==
    /\ pc = "NoReader"
    /\ stored # NoStore
    /\ \E is_compressed \in BOOLEAN :
        \E stream \in tar_streams(stored, is_compressed) :
            /\ opened' = [by |-> "from_reader", is_compressed |-> is_compressed]
            /\ archive' = stream.entries
            /\ pc' = IF stream.ok THEN "FreshAnchor" ELSE "FreshAnchorBadStream"
    /\ UNCHANGED <<pos, fs, restored, symlinks, order, next_node, restored_symlinks,
                   result, writes, Anchor>>
    /\ UNCHANGED <<stored, parked>>
    /\ UNCHANGED namevars
    /\ UNCHANGED writervars
    /\ UNCHANGED assetvars

\* CacheReader::open(path): the decoder is put in for the extension "zst".
OpenPath ==
    /\ pc = "NoReader"
    /\ stored # NoStore
    /\ \E stream \in tar_streams(stored, stored.extension = "zst") :
        /\ opened' = [by |-> "open", is_compressed |-> FALSE]
        /\ archive' = stream.entries
        /\ pc' = IF stream.ok THEN "FreshAnchor" ELSE "FreshAnchorBadStream"
    /\ UNCHANGED <<pos, fs, restored, symlinks, order, next_node, restored_symlinks,
                   result, writes, Anchor>>
    /\ UNCHANGED <<stored, parked>>
    /\ UNCHANGED namevars
    /\ UNCHANGED writervars
    /\ UNCHANGED assetvars

\* restore() on a stream tar cannot read: the anchor is made, then the first
\* read of an entry fails.
EnsureAnchorBadStream ==
    /\ pc = "FreshAnchorBadStream"
    /\ LET m == create_dir_all(fs, Anchor)
       IN  /\ fs' = m.fs
           /\ writes' = writes \cup m.made
    /\ pc' = "Failed"
    /\ result' = [err |-> "Io", arg |-> IoError]
    /\ UNCHANGED <<archive, pos, restored, symlinks, order, next_node, restored_symlinks>>
    /\ UNCHANGED <<Anchor>>
    /\ UNCHANGED namevars
    /\ UNCHANGED callervars
    /\ UNCHANGED writervars
    /\ UNCHANGED assetvars

\* A reader is still to be constructed.
NoReaderYet ==
    /\ Anchor = AnchorW
    /\ pc = "NoReader"
    /\ archive = <<>>
    /\ pos = 1
    /\ fs = InitialDisk
    /\ restored = <<>>
    /\ symlinks = <<>>
    /\ order = <<>>
    /\ next_node = 1
    /\ restored_symlinks = <<>>
    /\ result = Pending
    /\ writes = {}

InitWriter ==
    /\ npc = "idle"
    /\ name = <<>>
    /\ windows \in BOOLEAN
    /\ validation = NoValidation
    /\ canon = NoPath
    /\ canon2 = NoPath
    /\ is_dir = FALSE
    /\ tar_path = <<>>
    /\ linkname = <<>>
    /\ link_path = <<>>
    /\ NoReaderYet
    /\ CallerIdle
    /\ wpc = "Open"
    /\ tree \in SourceTrees
    /\ stamps \in Stamps \X Stamps
    /\ inputs \in SeqsUpTo(SourceNames, MaxInputs)
    /\ wnext = 1
    /\ tape = <<>>
    /\ twin_tape = <<>>
    /\ AssetsIdle

\* The writer emits entries a reader can only find through a finished frame,
\* which the drop never leaves; the read-back therefore restores no entry.
NextWriter ==
    \/ AddFile
    \/ DropWriter
    \/ FromReader
    \/ EnsureAnchor
    \/ EnsureAnchorBadStream
    \/ TopologicalSort
    \/ ReturnRestored

SpecWriter == InitWriter /\ [][NextWriter]_vars

----------------------------------------------------------------------------
\* Properties of the writer (SpecWriter)

\* The names present in the source tree.
Present == { n \in SourceNames : tree[n] # Absent }

\* S was written whole: every object of the tree was handed to add_file once,
\* a directory before what it holds, every call succeeded, and the writer is
\* gone.
WrittenWhole ==
    /\ wpc = "Dropped"
    /\ wnext > Len(inputs)
    /\ Range(inputs) = Present
    /\ Len(inputs) = Cardinality(Present)
    /\ \A i, j \in 1..Len(inputs) : (inputs[i] = N_a /\ inputs[j] = N_a_b) => i < j
    /\ \A n \in Present : tree[n].kind \in {"file", "dir", "link"}

\* The restored object at name n is the object of the source tree.
SameObject(n) ==
    LET at == Resolve(fs, resolve(Anchor, n, FALSE), FALSE)
    IN  /\ at.st = "found"
        /\ fs[at.path].kind = tree[n].kind
        /\ tree[n].kind = "file" =>
            /\ fs[at.path].data \in 1..Len(tape)
            /\ tape[fs[at.path].data].body = tree[n].data
        /\ tree[n].kind = "link" => fs[at.path].target = tree[n].target

\* C14: a set S of regular files, directories and symlinks written with
\* add_file and restored from what the writer left into a fresh anchor gives
\* the same paths with the same kinds, contents and link targets.
C14_RoundTrip ==
    (WrittenWhole /\ opened = [by |-> "from_reader", is_compressed |-> TRUE] /\ Terminated)
        => /\ result = Ok
           /\ \A n \in Present : SameObject(n)
           /\ \A n \in SourceNames \ Present :
                Resolve(fs, resolve(Anchor, n, FALSE), FALSE).st # "found"

\* C15: every header add_file appends has uid, gid, atime, mtime and ctime 0,
\* whatever the owner and the times of the source file.
C15_HeadersNeutralized ==
    \A i \in 1..Len(tape) :
        LET h == tape[i].header
        IN  h.uid = 0 /\ h.gid = 0 /\ h.atime = 0 /\ h.mtime = 0 /\ h.ctime = 0

C15_Witness ==
    /\ Len(tape) = 2
    /\ stamps[1] = [uid |-> 501, time |-> 1700]
    /\ tape[1].header.path = N_a_slash
    /\ tape[2].header.link_name = N_a

\* C16: two runs of the writer over the same inputs and over trees that
\* differ only in owner and times append the same headers and bodies.
C16_WriterDeterministic ==
    tape = twin_tape

C16_Witness ==
    /\ Len(twin_tape) = 2
    /\ stamps[1].uid # stamps[2].uid
    /\ stamps[1].time # stamps[2].time
    /\ tape[1].header.path = N_b
    /\ tape[1].header.link_name = N_a
    /\ tape[2].header.path = N_a

\* C17: once the writer is gone the sink holds a finished frame around a
\* complete tar stream, and a reader constructed on it finds the entries that
\* were appended.
C17_DropLeavesCompleteArchive ==
    wpc = "Dropped" =>
        /\ stored.frame = "complete"
        /\ opened = [by |-> "from_reader", is_compressed |-> TRUE] =>
            /\ pc # "FreshAnchorBadStream"
            /\ archive = TapeEntries(tape)

----------------------------------------------------------------------------
\* Reading a stored archive: from_reader / open, then restore (SpecOpen)

StoredUniverse ==
    { Entry("Directory", N_a_slash, <<>>),
      Entry("Regular", N_a_b, <<>>),
      Entry("Regular", N_b, <<>>),
      Entry("Symlink", N_a, N_b),
      Entry("Symlink", N_b, N_a) }

\* A tar file as it is, or inside a finished zstd frame, under a file name
\* with or without the extension "zst".
StoredArchives ==
    [frame : {"none", "complete"},
     entries : SeqsUpTo(StoredUniverse, MaxEntries),
     extension : {"zst", "tar"}]

InitOpen ==
    /\ NamesIdle
    /\ WriterIdle
    /\ AssetsIdle
    /\ NoReaderYet
    /\ stored \in StoredArchives
    /\ opened = NotOpened
    /\ parked = NoSession

NextOpen ==
    \/ FromReader
    \/ OpenPath
    \/ EnsureAnchor
    \/ EnsureAnchorBadStream
    \/ RestoreEntry
    \/ CycleDetected
    \/ TopologicalSort
    \/ RestoreDeferredSymlink
    \/ ReturnRestored

SpecOpen == InitOpen /\ [][NextOpen]_vars

\* Whether the caller asked for decompression: the flag of from_reader, the
\* extension of the path given to open.
AskedToDecompress ==
    IF opened.by = "from_reader" THEN opened.is_compressed ELSE stored.extension = "zst"

\* C18: the reader hands restore the stored entries, the same for the plain
\* and for the zstd-wrapped form, exactly when it was asked to decompress a
\* wrapped archive or to read a plain one as it is; restore then runs on
\* those entries alone.  Asked otherwise, restore fails on the first read.
C18_SameEntriesPlainOrCompressed ==
    opened.by # "none" =>
        IF AskedToDecompress = (stored.frame = "complete")
        THEN /\ pc # "FreshAnchorBadStream"
             /\ archive = stored.entries
             /\ pc = "Failed" => result.err # "Io" \/ result.arg # IoError \/ pos > 1
        ELSE /\ pc \in {"FreshAnchorBadStream", "Failed"}
             /\ pc = "Failed" => (result = [err |-> "Io", arg |-> IoError] /\ pos = 1)

C18_Witness ==
    /\ pc = "Done"
    /\ stored.frame = "complete"
    /\ stored.extension = "zst"
    /\ opened.by = "open"
    /\ restored = <<N_b, N_a>>
    /\ symlinks = <<1>>

----------------------------------------------------------------------------
\* Two restores into disjoint anchors (SpecTwo)

N_b_v_a == <<"b", "/", "v", "/", "a">>

\* The archives the two sessions restore.
ConcurrentArchives ==
    { <<Entry("Regular", N_a, <<>>)>>,
      <<Entry("Directory", N_a_slash, <<>>), Entry("Regular", N_a_b, <<>>)>>,
      <<Entry("Symlink", N_a, N_b), Entry("Regular", N_b, <<>>)>>,
      <<Entry("Symlink", N_a, N_b), Entry("Symlink", N_b, N_a)>>,
      <<Entry("Symlink", N_a, L_dot), Entry("Symlink", N_a_b, L_up),
        Entry("Regular", N_b_v_a, <<>>)>> }

\* A restore session that has not started: its reader and its anchor.
FreshSession(anchor, arch) ==
    [pc |-> "FreshAnchor", archive |-> arch, pos |-> 1, restored |-> <<>>,
     symlinks |-> <<>>, order |-> <<>>, next_node |-> 1, restored_symlinks |-> <<>>,
     result |-> Pending, writes |-> {}, Anchor |-> anchor]

\* The scheduler takes the running session off and puts the other one on;
\* the disk is the one thing they share.
Switch ==
    /\ parked # NoSession
    /\ parked.pc \notin {"Done", "Failed"}
    /\ parked' = [pc |-> pc, archive |-> archive, pos |-> pos, restored |-> restored,
                  symlinks |-> symlinks, order |-> order, next_node |-> next_node,
                  restored_symlinks |-> restored_symlinks, result |-> result,
                  writes |-> writes, Anchor |-> Anchor]
    /\ pc' = parked.pc
    /\ archive' = parked.archive
    /\ pos' = parked.pos
    /\ restored' = parked.restored
    /\ symlinks' = parked.symlinks
    /\ order' = parked.order
    /\ next_node' = parked.next_node
    /\ restored_symlinks' = parked.restored_symlinks
    /\ result' = parked.result
    /\ writes' = parked.writes
    /\ Anchor' = parked.Anchor
    /\ UNCHANGED <<fs, stored, opened>>
    /\ UNCHANGED namevars
    /\ UNCHANGED writervars
    /\ UNCHANGED assetvars

InitTwo ==
    /\ NamesIdle
    /\ WriterIdle
    /\ AssetsIdle
    /\ stored = NoStore
    /\ opened = NotOpened
    /\ Anchor = AnchorW
    /\ pc = "FreshAnchor"
    /\ archive \in ConcurrentArchives
    /\ pos = 1
    /\ fs = InitialDisk
    /\ restored = <<>>
    /\ symlinks = <<>>
    /\ order = <<>>
    /\ next_node = 1
    /\ restored_symlinks = <<>>
    /\ result = Pending
    /\ writes = {}
    /\ \E arch \in ConcurrentArchives : parked = FreshSession(AnchorV, arch)

NextTwo ==
    \/ Switch
    \/ EnsureAnchor
    \/ RestoreEntry
    \/ CycleDetected
    \/ TopologicalSort
    \/ RestoreDeferredSymlink
    \/ ReturnRestored

SpecTwo == InitTwo /\ [][NextTwo]_vars

\* C19: of two restores into disjoint anchors, interleaved in any way,
\* neither creates or writes anything under the other's anchor (the part of
\* non-interference that the rest of the claim builds on).
C19_NoWriteUnderOtherAnchor ==
    parked # NoSession =>
        /\ \A p \in writes : ~path_starts_with(p, parked.Anchor)
        /\ \A p \in parked.writes : ~path_starts_with(p, Anchor)

----------------------------------------------------------------------------
\* Properties of restore (Spec), continued

\* Everything on the disk before a step is on the disk after it, unchanged.
NothingUndone ==
    \A p \in DOMAIN fs : p \in DOMAIN fs' /\ fs'[p] = fs[p]

\* C21: the step in which restore fails (in the first pass, with
\* CycleDetected, or in the second pass) removes and changes nothing that was
\* written before it, and nothing is touched after the error is returned.
C21_NothingRolledBack ==
    [][ /\ pc' = "Failed" => NothingUndone
        /\ pc = "Failed" => fs' = fs ]_vars

C21_Witness ==
    /\ pc = "Failed"
    /\ result.err = "Io"
    /\ next_node = 2
    /\ archive = <<Entry("Symlink", N_a, N_b), Entry("Directory", N_a_slash, <<>>),
                   Entry("Regular", N_a_b, <<>>)>>
    /\ fs[Append(Anchor, N_a)] = DirNode
    /\ fs[Anchor \o <<N_a, N_b>>] = FileNode(3)

\* The symbolic links on disk are those of first-pass entries.
OnlyFirstPassLinks ==
    \A p \in DOMAIN fs :
        fs[p].kind = "link" =>
            \E i \in 1..Len(archive) :
                /\ i < pos
                /\ i \notin Range(symlinks)
                /\ archive[i].kind = "Symlink"
                /\ archive[i].link = fs[p].target

\* C22: when restore fails with CycleDetected no deferred symlink has been
\* created: the second pass has restored nothing and the disk holds only what
\* the first pass wrote.
C22_CycleCreatesNoLink ==
    (pc = "Failed" /\ result.err = "CycleDetected") =>
        /\ restored_symlinks = <<>>
        /\ order = <<>>
        /\ next_node = 1
        /\ OnlyFirstPassLinks

C22_Witness ==
    /\ pc = "Failed"
    /\ result.err = "CycleDetected"
    /\ archive = <<Entry("Symlink", N_a, N_b), Entry("Symlink", N_b, N_a),
                   Entry("Directory", N_a_slash, <<>>)>>
    /\ symlinks = <<1, 2>>
    /\ DOMAIN fs = {Root, << <<"t">> >>, Anchor, Append(Anchor, N_a)}


PhaseRank(p) ==
    CASE p = "FreshAnchor" -> 0
      [] p = "StreamingEntries" -> 1
      [] p = "DrainingSymlinks" -> 2
      [] OTHER -> 3

\* C23: restore only moves forward through its phases: no entry is read
\* before the anchor is ensured, no deferred symlink is created before the
\* stream is exhausted, no stream entry is processed once the second pass has
\* started, and nothing changes on disk after restore has returned.
C23_PhasesMoveForward ==
    [][ /\ PhaseRank(pc') >= PhaseRank(pc)
        /\ pc = "FreshAnchor" =>
              /\ pos = 1 /\ pos' = pos
              /\ restored' = <<>> /\ symlinks' = <<>>
              /\ pc' = "StreamingEntries" => Anchor \in DOMAIN fs'
        /\ pc = "StreamingEntries" => restored_symlinks' = <<>>
        /\ restored_symlinks' # restored_symlinks => pos > Len(archive)
        /\ pc' = "DrainingSymlinks" =>
              /\ pos' > Len(archive)
              /\ pc = "DrainingSymlinks" => (pos' = pos /\ symlinks' = symlinks)
        /\ Terminated => (fs' = fs /\ pc' = pc) ]_vars

C23_Witness ==
    /\ pc = "Done"
    /\ Len(archive) = 3
    /\ Len(restored_symlinks) = 2
    /\ Len(restored) = 3
    /\ Anchor \in DOMAIN fs


\* Where restore() stands: its phase, its place in the stream and its place in
\* the sorted nodes.  Every step of Next changes it.
position == <<pc, pos, next_node>>

Phases == {"FreshAnchor", "StreamingEntries", "DrainingSymlinks", "Done", "Failed"}

\* restore() moves on: it has not returned and its position changes.
MoveOn ==
    /\ ~Terminated
    /\ pc' \in Phases
    /\ pos' \in 1..(Len(archive) + 1)
    /\ next_node' \in 1..(Len(archive) + 1)

\* restore() runs on its caller's thread from its first statement to its
\* return, and none of its statements waits for anything: as long as it has
\* not returned, it moves on.
SpecLive == Init /\ [][Next]_vars /\ WF_position(MoveOn)

\* Some statement of restore() can run: a guard of Next holds, and where a
\* statement picks a value there is one to pick.
CanStep ==
    \/ pc = "FreshAnchor"
    \/ pc = "StreamingEntries" /\ pos <= Len(archive)
    \/ /\ pc = "StreamingEntries" /\ pos > Len(archive)
       /\ \/ has_cycle(graph_edges(archive, symlinks))
          \/ toposort(graph_edges(archive, symlinks),
                      DOMAIN header_lookup(archive, symlinks)) # {}
    \/ pc = "DrainingSymlinks"

\* C24: for every archive restore terminates, in Done or in Failed; the first
\* pass handles the stream's entries one after the other, each once, and the
\* second pass handles each node of the graph at most once.
C24_RestoreTerminates ==
    /\ <>Terminated
    /\ [](~Terminated => CanStep)
    /\ [][ /\ pos' # pos => (pos' = pos + 1 /\ pos <= Len(archive))
           /\ next_node' # next_node =>
                 (next_node' = next_node + 1 /\ next_node <= Len(order)) ]_vars
    /\ [](\A i, j \in 1..Len(order) : order[i] = order[j] => i = j)
    /\ [](pc = "Done" => (pos = Len(archive) + 1 /\ next_node = Len(order) + 1))

C24_Witness ==
    /\ pc = "Done"
    /\ Len(archive) = MaxEntries
    /\ pos = Len(archive) + 1
    /\ Len(order) >= 1
    /\ next_node = Len(order) + 1
    /\ Len(restored) = Len(archive)


\* restore has failed in the first pass, on the entry before `pos`.
FailedInFirstPass ==
    /\ pc = "Failed"
    /\ pos > 1
    /\ next_node = 1
    /\ result.err # "CycleDetected"

\* C25: the name is canonicalized before the kind is looked at: when the
\* first pass fails on an entry whose name is malformed, the error is
\* MalformedName of that name, whatever the entry's kind.
C25_NameCheckedBeforeKind ==
    (FailedInFirstPass /\ ~check_name(archive[pos - 1].name).well_formed) =>
        result = [err |-> "MalformedName", arg |-> archive[pos - 1].name]


----------------------------------------------------------------------------
\* Properties of the writer (SpecWriter), continued

\* The source object the i-th appended entry was made from: every call
\* before an error appends one entry.
SourceOf(i) == tree[inputs[i]]

KindOnDisk(node) ==
    CASE node.kind = "file" -> "Regular"
      [] node.kind = "dir" -> "Directory"
      [] node.kind = "link" -> "Symlink"
      [] OTHER -> "Fifo"

\* C26: the header of an appended entry records the kind of its source and
\* the size (the byte length of a regular file, zero of a directory or a
\* symlink); the body is the file's bytes for a regular file that is not
\* empty and is empty otherwise.
C26_HeaderRecordsKindAndSize ==
    \A i \in 1..Len(tape) :
        LET src == SourceOf(i)
            h == tape[i].header
        IN  src.kind \in {"file", "dir", "link"} =>
                /\ h.entry_type = KindOnDisk(src)
                /\ h.size = (IF src.kind = "file" THEN Len(src.data) ELSE 0)
                /\ tape[i].body = (IF src.kind = "file" THEN src.data ELSE <<>>)

\* C27: add_file on a source that is not a regular file, a directory or a
\* symlink appends nothing: no appended entry was made from such a source.
C27_UnsupportedSourceRejected ==
    \A i \in 1..Len(tape) : SourceOf(i).kind \in {"file", "dir", "link"}


----------------------------------------------------------------------------
\* make_canonical_for_tar on every name (SpecTarNames)

InitTarNames ==
    /\ RestoreIdle
    /\ CallerIdle
    /\ WriterIdle
    /\ AssetsIdle
    /\ npc = "tar"
    /\ name \in StringsUpTo(MaxNameLen)
    /\ windows = FALSE
    /\ validation = NoValidation
    /\ canon = NoPath
    /\ canon2 = NoPath
    /\ is_dir \in BOOLEAN
    /\ tar_path = <<>>
    /\ linkname = <<>>
    /\ link_path = <<>>

\* path.make_canonical_for_tar(is_dir), on the name and then on what the
\* first application left.
MakeCanonicalForTar ==
    /\ npc = "tar"
    /\ Len(tar_path) < 2
    /\ LET path == IF tar_path = <<>> THEN name ELSE tar_path[Len(tar_path)]
       IN  tar_path' = Append(tar_path, make_canonical_for_tar(path, is_dir))
    /\ UNCHANGED <<npc, name, windows, validation, canon, canon2, is_dir,
                   linkname, link_path>>
    /\ UNCHANGED restorevars
    /\ UNCHANGED callervars
    /\ UNCHANGED writervars
    /\ UNCHANGED assetvars

NextTarNames == MakeCanonicalForTar

SpecTarNames == InitTarNames /\ [][NextTarNames]_vars

\* C28: the name written for a directory ends in '/', the separator being
\* appended only when the path does not end in one; the name written for
\* anything else is the path unchanged; a second application changes nothing.
C28_TrailingSlashOnce ==
    /\ Len(tar_path) >= 1 =>
          IF is_dir
          THEN /\ ends_with(tar_path[1], <<Slash>>)
               /\ tar_path[1] = (IF ends_with(name, <<Slash>>) THEN name
                                 ELSE Append(name, Slash))
          ELSE tar_path[1] = name
    /\ Len(tar_path) = 2 => tar_path[2] = tar_path[1]

C28_Witness ==
    /\ is_dir
    /\ name = <<"a", Slash>>
    /\ tar_path = <<name, name>>


\* C29: on a POSIX host the mode in the header is the permission bits of the
\* source; on another host it is 0o644 (420) for a file and 0o755 (493) for
\* a directory.
C29_ModeWritten ==
    \A i \in 1..Len(tape) :
        LET src == SourceOf(i)
        IN  tape[i].header.mode =
                (IF ~windows THEN src.perm
                 ELSE IF src.kind = "dir" THEN 493 ELSE 420)


----------------------------------------------------------------------------
\* Properties of the name pipeline (SpecNames), continued

\* C30 as stated: for every name, windows_safe is false exactly when the name
\* contains a backslash.
C30_BackslashExactly ==
    npc # "start" =>
        (~validation.windows_safe <=> contains(name, <<Backslash>>))

\* C30 amended: for every name that is not empty, windows_safe is false
\* exactly when the name contains a backslash, whether or not the name is
\* well-formed; for the empty name both flags are false.
C30_BackslashExactlyUnlessEmpty ==
    npc # "start" =>
        IF name = <<>>
        THEN validation = [well_formed |-> FALSE, windows_safe |-> FALSE]
        ELSE ~validation.windows_safe <=> contains(name, <<Backslash>>)

C30_Witness ==
    /\ npc = "checked"
    /\ name = <<Dot, Slash, "a", Backslash>>
    /\ validation = [well_formed |-> FALSE, windows_safe |-> FALSE]


\* A name without the one trailing separator a well-formed name can have.
WithoutTrailingSlash(n) ==
    IF ends_with(n, <<Slash>>) THEN SubSeq(n, 1, Len(n) - 1) ELSE n

\* C31 as stated: a malformed name fails with MalformedName on every host; a
\* well-formed name with a backslash fails with WindowsUnsafeName on a
\* backslash host and is returned unchanged on a POSIX host.
C31_WellFormedFirstThenHost ==
    npc \in {"canonicalized", "again"} =>
        IF ~check_name(name).well_formed
        THEN canon = [err |-> "MalformedName", path |-> name]
        ELSE contains(name, <<Backslash>>) =>
                IF windows
                THEN canon = [err |-> "WindowsUnsafeName", path |-> name]
                ELSE canon = [err |-> "Ok", path |-> name]

\* C31 amended: the same order of the two checks; on a POSIX host the
\* well-formed name with a backslash is accepted with its backslashes kept,
\* and loses only a trailing '/'.
C31_WellFormedFirstThenHostKeepingBackslash ==
    npc \in {"canonicalized", "again"} =>
        IF ~check_name(name).well_formed
        THEN canon = [err |-> "MalformedName", path |-> name]
        ELSE contains(name, <<Backslash>>) =>
                IF windows
                THEN canon = [err |-> "WindowsUnsafeName", path |-> name]
                ELSE canon = [err |-> "Ok", path |-> WithoutTrailingSlash(name)]

C31_Witness ==
    /\ npc = "canonicalized"
    /\ windows
    /\ name = <<Dot, Slash, "a", Backslash, "a">>
    /\ canon = [err |-> "MalformedName", path |-> name]


----------------------------------------------------------------------------
\* canonicalize_linkname on every short linkname (SpecLinkNames)

MaxLinkLen == 5

\* A disk on which the anchor exists and holds a symbolic link `a` that leads
\* out of it.
DiskWithLink ==
    (AnchorW :> DirNode) @@ (Append(AnchorW, N_a) :> LinkNode(<<Dot, Dot>>))
        @@ InitialDisk

\* The processed names of test_canonicalize_linkname, in the host's form:
\* "source" and "child/source".
InitLinkNames ==
    /\ CallerIdle
    /\ WriterIdle
    /\ AssetsIdle
    /\ Anchor = AnchorW
    /\ pc = "idle"
    /\ archive = <<>>
    /\ pos = 1
    /\ fs \in {InitialDisk, DiskWithLink}
    /\ restored = <<>>
    /\ symlinks = <<>>
    /\ order = <<>>
    /\ next_node = 1
    /\ restored_symlinks = <<>>
    /\ result = Pending
    /\ writes = {}
    /\ npc = "link"
    /\ windows \in BOOLEAN
    /\ name \in {N_a, into_system(N_a_b, windows)}
    /\ validation = NoValidation
    /\ canon = NoPath
    /\ canon2 = NoPath
    /\ is_dir = FALSE
    /\ tar_path = <<>>
    /\ linkname \in StringsUpTo(MaxLinkLen)
    /\ link_path = <<>>

\* canonicalize_linkname(anchor, &processed_name, linkname)
CanonicalizeLinkname ==
    /\ npc = "link"
    /\ link_path' = canonicalize_linkname(Anchor, name, linkname, windows)
    /\ npc' = "linked"
    /\ UNCHANGED <<name, windows, validation, canon, canon2, is_dir, tar_path,
                   linkname>>
    /\ UNCHANGED restorevars
    /\ UNCHANGED callervars
    /\ UNCHANGED writervars
    /\ UNCHANGED assetvars

NextLinkNames == CanonicalizeLinkname

SpecLinkNames == InitLinkNames /\ [][NextLinkNames]_vars

\* The directory of the link: parent(anchor / processed_name).
SourceDir == Parent(Anchor \o PathPieces(name, windows))

\* C32: an absolute linkname is returned as it is; a relative one gives the
\* normalized join of the link's directory with the linkname, whatever is on
\* the disk.
C32_PurelyLexical ==
    npc = "linked" =>
        IF is_absolute(linkname, windows)
        THEN link_path = PathPieces(linkname, windows)
        ELSE /\ link_path = clean(SourceDir \o PathPieces(linkname, windows))
             /\ \A i \in 1..Len(link_path) : link_path[i] \notin {CurDir, ParentDir}

C32_Witness ==
    /\ npc = "linked"
    /\ ~windows
    /\ fs = DiskWithLink
    /\ name = N_a_b
    /\ linkname = <<Dot, Dot, Slash, "a", "a">>
    /\ link_path = Anchor \o << <<"a", "a">> >>


\* C33 as stated: on a backslash host a relative linkname written with
\* forward slashes only is one component.
C33_ForwardSlashIsOneComponent ==
    (/\ npc = "linked" /\ windows
     /\ contains(linkname, <<Slash>>) /\ ~contains(linkname, <<Backslash>>)
     /\ ~is_absolute(linkname, windows))
        => link_path = Append(SourceDir, linkname)

\* C33 amended: on a backslash host the forward slash separates components
\* like the backslash, so a forward-slash linkname is split and collapsed as
\* on a POSIX host; on a POSIX host a linkname without a forward slash, its
\* backslashes included, is one component.
C33_HostSeparators ==
    npc = "linked" =>
        /\ (/\ windows /\ ~contains(linkname, <<Backslash>>)
            /\ ~is_absolute(linkname, windows))
              => link_path = clean(SourceDir \o DropEmpty(Split(linkname, FALSE)))
        /\ (/\ ~windows /\ ~contains(linkname, <<Slash>>)
            /\ linkname \notin {<<>>, CurDir, ParentDir})
              => link_path = Append(SourceDir, linkname)

C33_Witness ==
    /\ npc = "linked"
    /\ windows
    /\ name = <<"a", Backslash, "b">>
    /\ linkname = <<Dot, Dot, Slash, "a">>
    /\ link_path = Append(Anchor, <<"a">>)


----------------------------------------------------------------------------
\* Properties of restore (Spec), third part

\* The archive holds nothing but symlinks directly under the anchor whose
\* targets lie inside the anchor and are the name of no entry.
OnlyDanglingLinks ==
    /\ archive # <<>>
    /\ \A i \in 1..Len(archive) :
        /\ archive[i].kind = "Symlink"
        /\ check_name(archive[i].name).well_formed
        /\ Len(PathPieces(archive[i].name, FALSE)) = 1
        /\ path_starts_with(LinkTarget(archive[i]), Anchor)
        /\ LinkTarget(archive[i]) # Anchor
        /\ \A j \in 1..Len(archive) : LinkLocation(archive[j]) # LinkTarget(archive[i])

\* The second pass is about to create a link whose target is not on the disk.
DanglingIsNext ==
    /\ pc = "DrainingSymlinks"
    /\ next_node <= Len(order)
    /\ Resolve(fs, LinkTarget(archive[order[next_node]]), TRUE).st # "found"

\* C34: the second pass has no existence test.  No step ends restore with
\* LinkTargetDoesNotExist; a deferred link whose target is missing is, unless
\* its own location cannot be written, created with its stored target and
\* its name appended to the second pass's list, which is part of the
\* returned list; an archive of dangling links is restored with success.
C34_DanglingLinkIsCreated ==
    [][ /\ result'.err # "LinkTargetDoesNotExist"
        /\ (DanglingIsNext /\ pc' = "DrainingSymlinks") =>
              LET e == archive[order[next_node]]
                  at == Resolve(fs, LinkLocation(e), FALSE)
              IN  /\ at.st # "error"
                  /\ at.path \in DOMAIN fs'
                  /\ fs'[at.path] = LinkNode(e.link)
                  /\ restored_symlinks' = Append(restored_symlinks, CanonicalName(e))
        /\ pc' = "Done" =>
              /\ \A n \in Range(restored_symlinks) : n \in Range(restored')
              /\ \A i \in Range(symlinks) : CanonicalName(archive[i]) \in Range(restored')
        /\ (pc' \in {"Done", "Failed"} /\ OnlyDanglingLinks) => pc' = "Done" ]_vars

C34_Witness ==
    /\ pc = "Done"
    /\ archive = <<Entry("Directory", N_a_slash, <<>>), Entry("Symlink", N_a_a, N_c),
                   Entry("Symlink", N_b, N_c)>>
    /\ symlinks = <<2, 3>>
    /\ Resolve(fs, LinkTarget(archive[2]), TRUE).st # "found"
    /\ Resolve(fs, LinkTarget(archive[3]), TRUE).st # "found"
    /\ fs[Anchor \o <<N_a, N_a>>] = LinkNode(N_c)
    /\ fs[Append(Anchor, N_b)] = LinkNode(N_c)
    /\ Len(restored) = 3


\* Entry i was deferred and no later deferred entry has its name: the entry
\* whose link the second pass creates for that name.
LastDeferred(i) ==
    /\ i \in Range(symlinks)
    /\ \A j \in Range(symlinks) :
        CanonicalName(archive[j]) = CanonicalName(archive[i]) => j <= i

\* From the location of every link the second pass would create to its
\* lexical target.
CreatedLinkEdges ==
    { <<LinkLocation(archive[i]), LinkTarget(archive[i])>> :
        i \in { j \in 1..Len(archive) : LastDeferred(j) } }

\* C35: restore fails with CycleDetected only if the links the second pass
\* would create, the last deferred entry of every name, form a cycle of
\* locations on the disk.
C35_OnlyRealCycles ==
    (pc = "Failed" /\ result.err = "CycleDetected") => has_cycle(CreatedLinkEdges)


\* The next stream entry is a regular file whose place is taken by a
\* directory.
FileAtDirectoryIsNext ==
    /\ pc = "StreamingEntries"
    /\ pos <= Len(archive)
    /\ archive[pos].kind = "Regular"
    /\ check_name(archive[pos].name).well_formed
    /\ LET at == Resolve(fs, LinkLocation(archive[pos]), TRUE)
       IN  at.st = "found" /\ fs[at.path].kind = "dir"

\* C36: a regular-file entry whose path is an existing directory ends restore
\* with the I/O error "Is a directory"; the directory and everything restored
\* into it stay as they were and nothing is added to the list.
C36_FileAtDirectoryFails ==
    [][ FileAtDirectoryIsNext =>
            /\ pc' = "Failed"
            /\ result' = [err |-> "Io", arg |-> IsADirectory]
            /\ fs' = fs
            /\ restored' = restored ]_vars

C36_Witness ==
    /\ pc = "Failed"
    /\ result = [err |-> "Io", arg |-> IsADirectory]
    /\ archive = <<Entry("Directory", N_a_slash, <<>>), Entry("Regular", N_a_b, <<>>),
                   Entry("Regular", N_a, <<>>)>>
    /\ fs[Append(Anchor, N_a)] = DirNode
    /\ fs[Anchor \o <<N_a, N_b>>] = FileNode(2)
    /\ restored = <<N_a, N_a_b>>


\* A symlink entry whose lexically canonicalized target is the anchor.
TargetIsAnchor(e) ==
    /\ e.kind = "Symlink"
    /\ check_name(e.name).well_formed
    /\ LinkTarget(e) = Anchor

\* Entry j is a regular file named one component below the link of entry i.
NamedThrough(i, j) ==
    /\ archive[j].kind = "Regular"
    /\ check_name(archive[j].name).well_formed
    /\ Parent(LinkLocation(archive[j])) = LinkLocation(archive[i])

\* C37: a symlink whose lexically canonicalized target is the anchor itself
\* passes the containment check: it is never deferred nor refused as leaving
\* the anchor, after its step the link is on disk at the real place of its
\* name and listed, and a file entry that follows and is named through it is
\* written directly under the anchor and listed under its stored name.
C37_LinkToAnchorAccepted ==
    \A i \in 1..Len(archive) :
        TargetIsAnchor(archive[i]) =>
            /\ \A k \in 1..Len(symlinks) : symlinks[k] # i
            /\ (FailedInFirstPass /\ pos = i + 1) => result.err # "LinkOutsideOfDirectory"
            /\ (pc = "StreamingEntries" /\ pos = i + 1) =>
                    LET at == Resolve(fs, LinkLocation(archive[i]), FALSE)
                    IN  /\ at.st = "found"
                        /\ fs[at.path] = LinkNode(archive[i].link)
                        /\ restored[Len(restored)] = CanonicalName(archive[i])
            /\ (pc = "StreamingEntries" /\ pos = i + 2 /\ NamedThrough(i, i + 1)) =>
                    LET at == Append(Anchor, LinkLocation(archive[i + 1])[Len(LinkLocation(archive[i + 1]))])
                    IN  /\ at \in DOMAIN fs
                        /\ fs[at] = FileNode(i + 1)
                        /\ at \in writes
                        /\ restored[Len(restored)] = CanonicalName(archive[i + 1])

C37_Witness ==
    /\ pc = "StreamingEntries"
    /\ pos = 3
    /\ archive = <<Entry("Symlink", N_a, L_dot), Entry("Regular", N_a_b, <<>>)>>
    /\ fs[Append(Anchor, N_a)] = LinkNode(L_dot)
    /\ Append(Anchor, N_b) \in DOMAIN fs
    /\ fs[Append(Anchor, N_b)] = FileNode(2)
    /\ restored = <<N_a, N_a_b>>


----------------------------------------------------------------------------
\* The checked constructors of AnchoredSystemPathBuf on every short path
\* (SpecAnchored)

MaxPathLen == 4

\* TryFrom<&Path> for AnchoredSystemPathBuf
try_from(path, win) ==
    IF is_absolute(path, win)
    THEN [err |-> "NotRelative", path |-> path]
    ELSE [err |-> "Ok", path |-> into_system(path, win)]

\* Path::strip_prefix: the components of `path` after those of the root, as a
\* path; none when the root's components do not start `path`.
strip_prefix(path, root, win) ==
    LET all == components(path, win)
        base == <<RootDir>> \o root
    IN  IF path_starts_with(all, base)
        THEN [ok |-> TRUE, path |-> collect(SubSeq(all, Len(base) + 1, Len(all)), win)]
        ELSE [ok |-> FALSE, path |-> <<>>]

\* AnchoredSystemPathBuf::new(root, path)
new(root, path, win) ==
    LET stripped_path == strip_prefix(path, root, win)
    IN  IF stripped_path.ok
        THEN [err |-> "Ok", path |-> stripped_path.path]
        ELSE [err |-> "NotParent", path |-> path]

\* An absolute path written with the host's main separator and without "."
\* or ".." pieces, as an AbsoluteSystemPath holds it.
IsAbsoluteSystemPath(s, win) ==
    /\ is_absolute(s, win)
    /\ collect(components(s, win), win) = s
    /\ \A i \in 1..Len(components(s, win)) : components(s, win)[i] # ParentDir

\* The roots handed to new(): "/" and "/a".
Roots == {<<>>, <<N_a>>}

InitAnchored ==
    /\ CallerIdle
    /\ WriterIdle
    /\ AssetsIdle
    /\ Anchor \in Roots
    /\ pc = "idle"
    /\ archive = <<>>
    /\ pos = 1
    /\ fs = InitialDisk
    /\ restored = <<>>
    /\ symlinks = <<>>
    /\ order = <<>>
    /\ next_node = 1
    /\ restored_symlinks = <<>>
    /\ result = Pending
    /\ writes = {}
    /\ npc = "path"
    /\ windows \in BOOLEAN
    /\ name \in StringsUpTo(MaxPathLen)
    /\ validation = NoValidation
    /\ canon = NoPath
    /\ canon2 = NoPath
    /\ is_dir = FALSE
    /\ tar_path = <<>>
    /\ linkname = <<>>
    /\ link_path = <<>>

\* AnchoredSystemPathBuf::from_path_buf(name)
FromPathBuf ==
    /\ npc = "path"
    /\ canon' = from_path_buf(name, windows)
    /\ npc' = "from_path_buf"
    /\ UNCHANGED <<name, windows, validation, canon2, is_dir, tar_path, linkname,
                   link_path>>
    /\ UNCHANGED restorevars
    /\ UNCHANGED callervars
    /\ UNCHANGED writervars
    /\ UNCHANGED assetvars

\* AnchoredSystemPathBuf::try_from(name)
TryFromPath ==
    /\ npc = "path"
    /\ canon' = try_from(name, windows)
    /\ npc' = "try_from"
    /\ UNCHANGED <<name, windows, validation, canon2, is_dir, tar_path, linkname,
                   link_path>>
    /\ UNCHANGED restorevars
    /\ UNCHANGED callervars
    /\ UNCHANGED writervars
    /\ UNCHANGED assetvars

\* AnchoredSystemPathBuf::new(Anchor, name): both arguments are absolute
\* system paths.
NewAnchored ==
    /\ npc = "path"
    /\ IsAbsoluteSystemPath(name, windows)
    /\ canon' = new(Anchor, name, windows)
    /\ npc' = "new"
    /\ UNCHANGED <<name, windows, validation, canon2, is_dir, tar_path, linkname,
                   link_path>>
    /\ UNCHANGED restorevars
    /\ UNCHANGED callervars
    /\ UNCHANGED writervars
    /\ UNCHANGED assetvars

NextAnchored ==
    \/ FromPathBuf
    \/ TryFromPath
    \/ NewAnchored

SpecAnchored == InitAnchored /\ [][NextAnchored]_vars

\* What the glossary asks of an anchored path.
IsAnchoredPath(p, win) ==
    /\ p # <<>>
    /\ ~has_root(p, win)
    /\ \A i \in 1..Len(Split(p, win)) : Split(p, win)[i] \notin {CurDir, ParentDir}

\* C38: every path a checked constructor returns is relative, non-empty,
\* without a leading separator and without "." or ".." components; an
\* absolute input gives NotRelative, and new() gives NotParent exactly for a
\* path that is not under the root.
C38_ConstructorsGiveAnchoredPaths ==
    /\ npc \in {"from_path_buf", "try_from", "new"} /\ canon.err = "Ok"
            => IsAnchoredPath(canon.path, windows)
    /\ npc \in {"from_path_buf", "try_from"}
            => (canon.err = "NotRelative" <=> is_absolute(name, windows))
    /\ npc = "new"
            => (canon.err = "NotParent" <=>
                    ~path_starts_with(components(name, windows), <<RootDir>> \o Anchor))


----------------------------------------------------------------------------
\* EvaluatableAssets (SpecAssets)

MaxCells == 4

\* The entries handed to one() and with_entry().
AssetEntries == {"e1", "e2"}

\* EvaluatableAssets::empty
empty == <<>>

\* EvaluatableAssets::one
one(entry) == <<entry>>

\* EvaluatableAssets::with_entry: the value of the cell `self`, cloned, with
\* the entry pushed.
with_entry(self, entry) ==
    LET entries == cells[self]
    IN  Append(entries, entry)

\* The call recorded with the cell it filled.
Task(f, self, entry) == [fn |-> f, self |-> self, entry |-> entry]

InitAssets ==
    /\ NamesIdle
    /\ CallerIdle
    /\ WriterIdle
    /\ Anchor = AnchorW
    /\ pc = "idle"
    /\ archive = <<>>
    /\ pos = 1
    /\ fs = InitialDisk
    /\ restored = <<>>
    /\ symlinks = <<>>
    /\ order = <<>>
    /\ next_node = 1
    /\ restored_symlinks = <<>>
    /\ result = Pending
    /\ writes = {}
    /\ cells = <<>>
    /\ tasks = <<>>

\* EvaluatableAssets::empty(): .cell() puts the value in a new cell.
Empty ==
    /\ Len(cells) < MaxCells
    /\ cells' = Append(cells, empty)
    /\ tasks' = Append(tasks, Task("empty", 0, "none"))
    /\ UNCHANGED namevars
    /\ UNCHANGED restorevars
    /\ UNCHANGED callervars
    /\ UNCHANGED writervars

\* EvaluatableAssets::one(entry)
One ==
    /\ Len(cells) < MaxCells
    /\ \E entry \in AssetEntries :
        /\ cells' = Append(cells, one(entry))
        /\ tasks' = Append(tasks, Task("one", 0, entry))
    /\ UNCHANGED namevars
    /\ UNCHANGED restorevars
    /\ UNCHANGED callervars
    /\ UNCHANGED writervars

\* with_entry writing the entry into the cell it read as well.
WithEntryInPlace ==
    /\ Len(cells) < MaxCells
    /\ \E self \in 1..Len(cells), entry \in AssetEntries :
        /\ cells' = Append([cells EXCEPT ![self] = Append(@, entry)], with_entry(self, entry))
        /\ tasks' = Append(tasks, Task("with_entry", self, entry))
    /\ UNCHANGED namevars
    /\ UNCHANGED restorevars
    /\ UNCHANGED callervars
    /\ UNCHANGED writervars

\* self.with_entry(entry) on any cell made so far
WithEntry ==
    /\ Len(cells) < MaxCells
    /\ \E self \in 1..Len(cells), entry \in AssetEntries :
        /\ cells' = Append(cells, with_entry(self, entry))
        /\ tasks' = Append(tasks, Task("with_entry", self, entry))
    /\ UNCHANGED namevars
    /\ UNCHANGED restorevars
    /\ UNCHANGED callervars
    /\ UNCHANGED writervars

NextAssets ==
    \/ Empty
    \/ One
    \/ WithEntry

SpecAssets == InitAssets /\ [][NextAssets]_vars

\* The entries of the calls that led to cell i, in call order.
RECURSIVE CallOrder(_)
CallOrder(i) ==
    IF tasks[i].fn = "empty" THEN <<>>
    ELSE IF tasks[i].fn = "one" THEN <<tasks[i].entry>>
    ELSE Append(CallOrder(tasks[i].self), tasks[i].entry)

\* C39: with_entry is a persistent append: the cell it returns holds the
\* entries of the original in their order followed by the new entry, the
\* original cell keeps its entries, and a chain of with_entry calls from
\* empty() holds the entries in call order.
C39_PersistentAppend ==
    \A i \in 1..Len(cells) :
        /\ cells[i] = CallOrder(i)
        /\ tasks[i].fn = "with_entry" =>
                cells[i] = cells[tasks[i].self] \o <<tasks[i].entry>>

C39_Witness ==
    /\ tasks = <<Task("empty", 0, "none"), Task("with_entry", 1, "e1"),
                 Task("with_entry", 2, "e2"), Task("with_entry", 2, "e1")>>
    /\ cells = << <<>>, <<"e1">>, <<"e1", "e2">>, <<"e1", "e1">> >>

====
